---- MODULE Spec2Model ----
(***************************************************************************)
(* Model of the cooperative (asyncio) load-test engine of                  *)
(* python_service_nuc_async.py: the per-session request/response state     *)
(* machine (AsyncSessionRunner), the process-wide concurrency counters,    *)
(* the flat and the staged (ramp-up) run controllers and the report.       *)
(*                                                                         *)
(* A step of the model is the code one task runs between two suspension    *)
(* points (await generate_token / create_chat / websockets.connect /       *)
(* ws.send / the next inbound message / asyncio.sleep / asyncio.gather).   *)
(* The remote server and the network are the environment: they choose the  *)
(* bootstrap outcome, the connect outcome, the outcome of every send, the  *)
(* inbound messages and when and how the channel is closed.                *)
(***************************************************************************)
EXTENDS Integers, Sequences, FiniteSets, TLC

(***************************************************************************)
(* Bounds of the model.                                                    *)
(***************************************************************************)
\* sessions a run of the session-level specification may create
MaxSessions == 2
\* total number of questions over the per-course pools
MaxQueue == 2
\* terminal responses a server may deliver beyond the length of the queue
MaxExtraResponses == 1
\* ranges of the ramp configuration of the ramp-only specification
MaxRampStart == 4
MaxRampMax == 12
MaxRampIncrement == 5

VARIABLES
    course_questions,             \* config.COURSE_QUESTIONS: course -> pool
    sess,                         \* the session tasks created so far, in order
    concurrent_invocations,       \* _concurrent_invocations
    peak_concurrent,              \* _peak_concurrent
    total_invocations_started,    \* _total_invocations_started
    total_invocations_completed,  \* _total_invocations_completed
    errors_502,                   \* _502_errors
    connection_errors,            \* _connection_errors
    setup_failures,               \* _setup_failures
    run_pc,                       \* where the run controller is
    mode,                         \* "none", "flat" or "staged"
    num_sessions,                 \* run_load_test: num_sessions
    start_sessions,               \* run_progressive_load_test: start_sessions
    max_sessions,                 \* run_progressive_load_test: max_sessions
    increment,                    \* run_progressive_load_test: increment
    current_total,                \* run_progressive_load_test: current_total
    stage_num,                    \* run_progressive_load_test: stage_num
    session_index,                \* run_progressive_load_test: session_index
    ramp_stages,                  \* run_progressive_load_test: ramp_stages
    stats,                        \* the report the run returned
    max_seen,                     \* history: largest value the in-flight count took since the reset
    raw_error,                    \* the classifier alone: the exception e it is given
    classified,                   \* the classifier alone: connection_error_type, counted
    codec_pc,                     \* the codec alone: what has been done
    input_string,                 \* encrypt: input_string (its UTF-8 bytes)
    encrypted_data,               \* decrypt: encrypted_data (the wire string)
    decrypted,                    \* decrypt: what it returned or raised
    request,                      \* run_load_test_endpoint: the request body read
    response,                     \* run_load_test_endpoint: the response returned
    last_message,                 \* the kind of the last inbound message noted
    lock_holder,                  \* _concurrent_lock: the task inside "async with"
    task_at,                      \* per task: the statement it is at (lock model)
    morph_run,                    \* a key or IV text, its morphed and demorphed forms
    sync_run,                     \* one session of the thread-per-session engine and
                                  \* the cooperative engine fed the same channel events,
    second_run                    \* a run requested while another one is in flight

counters == <<concurrent_invocations, peak_concurrent,
              total_invocations_started, total_invocations_completed>>
error_counters == <<errors_502, connection_errors, setup_failures>>
ramp_vars == <<num_sessions, start_sessions, max_sessions, increment, current_total, stage_num,
               session_index, ramp_stages>>
classifier_vars == <<raw_error, classified>>
codec_vars == <<codec_pc, input_string, encrypted_data, decrypted>>
endpoint_vars == <<request, response>>
engine_vars == <<course_questions, sess, counters, error_counters, run_pc, mode,
                 ramp_vars, stats, max_seen>>
lock_vars == <<lock_holder, task_at>>
idle_vars == <<classifier_vars, codec_vars, endpoint_vars, lock_vars, morph_run, sync_run, second_run>>
pure_vars == <<idle_vars, last_message>>
vars == <<course_questions, sess, counters, error_counters, run_pc, mode,
          ramp_vars, stats, max_seen, pure_vars>>

Min(a, b) == IF a < b THEN a ELSE b
Max(a, b) == IF a > b THEN a ELSE b

RECURSIVE SumSeq(_)
\* sum(...) over a list of numbers
SumSeq(q) == IF q = <<>> THEN 0 ELSE Head(q) + SumSeq(Tail(q))

(***************************************************************************)
(* Configuration: the courses and their question pools.                    *)
(***************************************************************************)
COURSES == <<"MED1060", "BUMA1000">>

\* The pools a configuration may hold: pool c is questions 1..n[c]; q questions
\* in all, spread over the two courses (the first takes the odd one).
PoolConfigs ==
    {[c \in {COURSES[1], COURSES[2]} |->
        IF c = COURSES[1] THEN q - (q \div 2) ELSE q \div 2] : q \in 0..MaxQueue}

\* start(): the (course_id, question) pairs of one pool, in pool order
PoolPairs(c, n) == [i \in 1..n |-> <<c, i>>]

\* faulty variant: the pools are concatenated in the reverse course order
BuildPendingQuestionsReversed(cq) ==
    PoolPairs(COURSES[2], cq[COURSES[2]]) \o PoolPairs(COURSES[1], cq[COURSES[1]])

\* start(): pending_questions, the pools concatenated in course order
BuildPendingQuestions(cq) ==
    PoolPairs(COURSES[1], cq[COURSES[1]]) \o PoolPairs(COURSES[2], cq[COURSES[2]])

(***************************************************************************)
(* ErrorClassifier: the raw error signal of a failed connect is its        *)
(* exception type and the text fragments its message contains.             *)
(***************************************************************************)
\* most text fragments one raw message holds
MaxFragments == 2
\* characters of a random string that vary; the rest is a fixed filler
MaxVaried == 1
\* bytes of an input string
MaxPlainLen == 2
\* parts of a wire string received from outside
MaxParts == 4
MaxLeftover == 3
MaxPool == 2
MaxEarlierErrors == 1
MaxStages == 4
MaxKeyLen == 3
MaxInbound == 3
MaxRampDecrement == 1

ErrorTypes == {"InvalidHandshake", "ConnectionClosed", "TimeoutError", "Exception"}

Fragments == {"502", "Bad Gateway", "503", "Service Unavailable", "504",
              "Gateway Timeout", "timeout", "timed out", "connection",
              "refused", "Connection refused", "ssl", "certificate"}

Messages == {m \in SUBSET Fragments : Cardinality(m) <= MaxFragments}

RawErrors == [type : ErrorTypes, message : Messages]

\* the raw errors a failing connect raises in the specifications of the engine:
\* every exception type, with a message of at most one fragment
ConnectErrors ==
    [type : ErrorTypes, message : {{}} \cup {{f} : f \in Fragments}]

\* needle in error_str
Contains(m, needle) == needle \in m

\* needle in error_str.lower(): "Gateway Timeout" lower-cased contains
\* "timeout", "Connection refused" contains "connection" and "refused"
ContainsLower(m, needle) ==
    \/ needle \in m
    \/ needle = "timeout" /\ "Gateway Timeout" \in m
    \/ needle \in {"connection", "refused"} /\ "Connection refused" \in m

Is502(m) == Contains(m, "502") \/ Contains(m, "Bad Gateway")
Is503(m) == Contains(m, "503") \/ Contains(m, "Service Unavailable")
Is504(m) == Contains(m, "504") \/ Contains(m, "Gateway Timeout")

\* faulty variant: the handshake clause without its 503 test
ClassifyHandshakeNo503(m) ==
    IF Is502(m) THEN "502_Bad_Gateway"
    ELSE IF Is504(m) THEN "504_Gateway_Timeout"
    ELSE "Handshake_Error"

\* start(): except websockets.exceptions.InvalidHandshake
ClassifyHandshake(m) ==
    IF Is502(m) THEN "502_Bad_Gateway"
    ELSE IF Is503(m) THEN "503_Service_Unavailable"
    ELSE IF Is504(m) THEN "504_Gateway_Timeout"
    ELSE "Handshake_Error"

\* faulty variant: the generic clause tests 503 before 502
ClassifyException503First(m) ==
    IF Is503(m) THEN "503_Service_Unavailable"
    ELSE IF Is502(m) THEN "502_Bad_Gateway"
    ELSE IF Is504(m) THEN "504_Gateway_Timeout"
    ELSE IF ContainsLower(m, "timeout") \/ ContainsLower(m, "timed out")
        THEN "Connection_Timeout"
    ELSE IF ContainsLower(m, "connection") /\ ContainsLower(m, "refused")
        THEN "Connection_Refused"
    ELSE IF ContainsLower(m, "ssl") \/ ContainsLower(m, "certificate")
        THEN "SSL_Error"
    ELSE "Unknown_Error"

\* start(): except Exception
ClassifyException(m) ==
    IF Is502(m) THEN "502_Bad_Gateway"
    ELSE IF Is503(m) THEN "503_Service_Unavailable"
    ELSE IF Is504(m) THEN "504_Gateway_Timeout"
    ELSE IF ContainsLower(m, "timeout") \/ ContainsLower(m, "timed out")
        THEN "Connection_Timeout"
    ELSE IF ContainsLower(m, "connection") /\ ContainsLower(m, "refused")
        THEN "Connection_Refused"
    ELSE IF ContainsLower(m, "ssl") \/ ContainsLower(m, "certificate")
        THEN "SSL_Error"
    ELSE "Unknown_Error"

\* faulty variant: every error goes through the generic clause
ClassifyByMessageOnly(e) == ClassifyException(e.message)

\* start(): the except clause that catches the error, in the order of the code
Classify(e) ==
    IF e.type = "InvalidHandshake" THEN ClassifyHandshake(e.message)
    ELSE IF e.type = "ConnectionClosed" THEN "Connection_Closed"
    ELSE IF e.type = "TimeoutError" THEN "Connection_Timeout"
    ELSE ClassifyException(e.message)

\* start(): which error counter the except clause increments (None: neither)
CountedAs(e) ==
    IF e.type = "ConnectionClosed" THEN "None"
    ELSE IF Classify(e) = "502_Bad_Gateway" THEN "502"
    ELSE "connection"

(***************************************************************************)
(* AsyncSessionRunner: the state of one session task.                      *)
(***************************************************************************)
\* the stats dictionary of a task that has not returned one
NoResult ==
    [session_index |-> 0, questions_sent |-> 0, responses_received |-> 0,
     successful |-> FALSE, setup_successful |-> FALSE,
     connection_error_type |-> "None"]

\* AsyncSessionRunner.__init__, and the task that runs run_session(index):
\* it is suspended in setup() at generate_token()
NewSession(index) ==
    [pc |-> "generate_token",
     task |-> "running",
     session_index |-> index,
     token |-> FALSE,
     session_id |-> FALSE,
     session_attributes |-> "None",
     ws |-> "none",
     pending_questions |-> <<>>,
     questions_sent_count |-> 0,
     responses_received_count |-> 0,
     current_question_index |-> 0,
     all_questions_sent |-> FALSE,
     waiting_for_response |-> FALSE,
     connection_error_type |-> "None",
     caller |-> "none",
     bootstrap |-> "pending",
     outstanding |-> 0,
     slots |-> 0,
     closed_on_send |-> FALSE,
     left_by |-> "none",
     payload |-> "none",
     result |-> NoResult]

\* create_session_tasks: num_sessions tasks numbered from start_session_index
CreateSessionTasks(count, start_session_index) ==
    [i \in 1..count |-> NewSession(start_session_index + i - 1)]

\* faulty variant: leaving the with block does not close the channel
CloseWsSkipped(ws) == ws

\* ws.close(), and the exit of "async with websockets.connect(...)"
CloseWs(ws) == IF ws = "open" THEN "closed" ELSE ws

\* faulty variant: success as soon as anything was sent
SuccessfulWhenAnySent(sent, received) == sent > 0

\* faulty variant: success without the check that anything was sent
SuccessfulWithoutSent(sent, received) == received = sent

\* start(): 'successful' of the returned dictionary
Successful(sent, received) == received = sent /\ sent > 0

\* faulty variant: the exception that ended the session leaves start() (no return in
\* the finally clause)
StartRaises(r) ==
    [NewSession(r.session_index) EXCEPT
        !.pc = "done",
        !.task = IF r.connection_error_type = "None" THEN "returned" ELSE "raised",
        !.ws = CloseWs(r.ws),
        !.bootstrap = r.bootstrap,
        !.slots = r.slots]

\* start(): the finally clause returns the statistics; the runner is dropped
StartReturns(r) ==
    [NewSession(r.session_index) EXCEPT
        !.pc = "done",
        !.task = "returned",
        !.ws = CloseWs(r.ws),
        !.bootstrap = r.bootstrap,
        !.slots = r.slots,
        !.left_by = r.left_by,
        !.session_attributes = r.session_attributes,
        !.result =
            [session_index |-> r.session_index,
             questions_sent |-> r.questions_sent_count,
             responses_received |-> r.responses_received_count,
             successful |-> Successful(r.questions_sent_count,
                                       r.responses_received_count),
             setup_successful |-> r.session_id,
             connection_error_type |-> r.connection_error_type]]

\* start() up to "async with websockets.connect(...)": the queue is built
EnterStart(r) ==
    [r EXCEPT !.pending_questions = BuildPendingQuestions(course_questions),
              !.pc = "connect"]

\* faulty variant: run_session goes on to start() although setup() failed
SetupFailureIgnored(r) == EnterStart(r)

\* run_session: setup() returned False
SetupFailedReturns(r) ==
    [NewSession(r.session_index) EXCEPT
        !.pc = "done",
        !.task = "returned",
        !.bootstrap = r.bootstrap,
        !.left_by = "setup",
        !.result =
            [session_index |-> r.session_index,
             questions_sent |-> 0,
             responses_received |-> 0,
             successful |-> FALSE,
             setup_successful |-> FALSE,
             connection_error_type |-> "Setup_Failed"]]

\* faulty variant: the payload always carries the empty object
PayloadAttributesEmpty(attributes) == "empty"

\* send_next_question: the "session_attributes" entry of the payload
PayloadAttributes(attributes) ==
    IF attributes # "None" THEN attributes ELSE "empty"

\* send_next_question up to its first suspension point: either the queue is
\* exhausted (and the channel is closed when nothing is outstanding), or the
\* next question is taken and the task waits in ws.send
SendNextQuestion(r) ==
    IF r.current_question_index >= Len(r.pending_questions)
    THEN [r EXCEPT
            !.all_questions_sent = TRUE,
            !.ws = IF r.questions_sent_count = r.responses_received_count
                   THEN CloseWs(@) ELSE @,
            !.pc = "return"]
    ELSE [r EXCEPT
            !.current_question_index = @ + 1,
            !.payload = PayloadAttributes(r.session_attributes),
            !.pc = "send"]

\* faulty variant: the loop is left as soon as the queue is exhausted
LoopBreaksWhenAllSent(r) == r.all_questions_sent

\* start(): the check after handle_message that leaves the receive loop
LoopBreaks(r) ==
    r.all_questions_sent /\ r.questions_sent_count = r.responses_received_count

\* where send_next_question returns to: start() goes on to the receive loop,
\* handle_message returns to the loop, which checks whether to leave
Resume(r) ==
    IF r.pc # "return" THEN r
    ELSE IF r.caller = "handle_message" /\ LoopBreaks(r)
        THEN StartReturns([r EXCEPT !.left_by = "break"])
    ELSE [r EXCEPT !.pc = "listen", !.caller = "none"]

(***************************************************************************)
(* The environment's choices.                                              *)
(***************************************************************************)
\* The results of generate_token() that setup() provides for: a token with or
\* without a session id, nothing (None, or a dictionary without token), or an
\* exception. The bootstrap client is a collaborator of the engine.
TokenOutcomes == {"token_sid", "token_nosid", "none", "raise"}

\* what create_chat() does: a session id, nothing, or an exception
ChatOutcomes == {"sid", "none", "raise"}

\* the values a server update of session_attributes may carry
AttrValues == {"a1", "a2"}

\* An inbound message: what decrypt and json.loads make of it, and for a JSON
\* object whether it carries session_attributes and complete_response (a text,
\* or a value that cannot be sliced such as null or a number).
InboundMessages ==
    [kind : {"format_error", "decrypt_error", "empty", "not_json", "not_object"},
     session_attributes : {"absent"}, complete_response : {"absent"}]
    \cup
    [kind : {"object"},
     session_attributes : {"absent"} \cup AttrValues,
     complete_response : {"absent", "text", "not_text"}]

\* the inbound messages without an attribute update: the ones the
\* specification of several sessions draws from (session_attributes feeds
\* nothing but the payload of the next request)
PlainMessages == {m \in InboundMessages : m.session_attributes = "absent"}

\* what "await ws.send(...)" does: the frame is written, the send raises
\* ConnectionClosed (the channel is closed), or it raises another exception
\* and ws.closed is then found False or True
SendOutcomes == {"ok", "closed", "error_open", "error_closed"}

\* how the receive loop finds the channel closed: normally (the iteration
\* ends) or abnormally (ConnectionClosed is raised)
Closures == {"closed_ok", "closed_err"}

(***************************************************************************)
(* The tracker: every operator is one "async with _concurrent_lock" block. *)
(***************************************************************************)
\* faulty variant: a send does not take a slot
IncrementSkipped(current) == current

\* send_next_question: the current count after a send
IncrementCurrent(current) == current + 1

\* faulty variant: the peak is assigned, not maximised
UpdatePeakAssigned(peak, current) == current

\* send_next_question: the peak after a send that made the count `current`
UpdatePeak(peak, current) == IF current > peak THEN current ELSE peak

\* faulty variant: a terminal response does not release the slot
DecrementMissing(current, waiting) == current

\* faulty variant: the decrement is not guarded by waiting_for_response
DecrementUnguarded(current, waiting) == current - 1

\* handle_message: the current count after a terminal response
DecrementOnCompletion(current, waiting) == IF waiting THEN current - 1 ELSE current

\* start(): "Clean up pending invocation" of the except clauses
CleanupPending(current, waiting) == IF waiting THEN current - 1 ELSE current

\* history: the slots session r holds once it has run a guarded decrement
Released(r) == IF r.waiting_for_response THEN r.slots - 1 ELSE r.slots

\* the history variable follows every change of the count
Track(current) == max_seen' = Max(max_seen, current)

(***************************************************************************)
(* handle_message, up to the suspension point of the send it may start.    *)
(***************************************************************************)
\* faulty variant: a message that was not decoded counts as a response too
IsTerminalUndecoded(m) == m.kind # "object" \/ m.complete_response # "absent"

\* 'complete_response' in data
IsTerminal(m) == m.kind = "object" /\ m.complete_response # "absent"

\* 'session_attributes' in data
HasAttributes(m) == m.kind = "object" /\ m.session_attributes # "absent"

\* the response count after a terminal message
CountResponse(received, waiting) == received + 1

\* faulty variant: the next question is sent on every decoded message
SendsNextOnAnyMessage(r, m) == m.kind = "object" /\ ~r.all_questions_sent

\* whether handle_message goes on to send_next_question: the logging between
\* the count and the send slices data['complete_response'], which raises for a
\* value that is no text; the exception is caught and logged
SendsNext(r, m) ==
    IsTerminal(m) /\ m.complete_response = "text" /\ ~r.all_questions_sent

HandleMessage(r, m) ==
    LET r1 == IF HasAttributes(m)
              THEN [r EXCEPT !.session_attributes = m.session_attributes]
              ELSE r
        r2 == IF IsTerminal(m)
              THEN [r1 EXCEPT
                      !.responses_received_count =
                          CountResponse(@, r.waiting_for_response),
                      !.waiting_for_response = FALSE,
                      !.slots = Released(r),
                      !.outstanding = Max(0, @ - 1)]
              ELSE r1
        r3 == [r2 EXCEPT !.caller = "handle_message", !.pc = "return"]
    IN  IF SendsNext(r, m) THEN SendNextQuestion(r3) ELSE r3

(***************************************************************************)
(* The steps of a session task.                                            *)
(***************************************************************************)
SessionAt(s, where) == s \in DOMAIN sess /\ sess[s].pc = where

\* setup(): generate_token() returns or raises
GenerateTokenReturns(s, o) ==
    /\ SessionAt(s, "generate_token")
    /\ LET r == sess[s] IN
        /\ sess' = [sess EXCEPT ![s] =
              CASE o = "token_sid" ->
                      EnterStart([r EXCEPT !.token = TRUE, !.session_id = TRUE,
                                           !.bootstrap = "ok"])
                [] o = "token_nosid" ->
                      [r EXCEPT !.token = TRUE, !.pc = "create_chat"]
                [] OTHER -> SetupFailedReturns([r EXCEPT !.bootstrap = "failed"])]
        /\ setup_failures' = IF o = "raise" THEN setup_failures + 1 ELSE setup_failures
    /\ UNCHANGED <<pure_vars, course_questions, counters, errors_502, connection_errors,
                   run_pc, mode, ramp_vars, stats, max_seen>>

\* setup(): create_chat() returns or raises
CreateChatReturns(s, o) ==
    /\ SessionAt(s, "create_chat")
    /\ LET r == sess[s] IN
        /\ sess' = [sess EXCEPT ![s] =
              IF o = "sid"
              THEN EnterStart([r EXCEPT !.session_id = TRUE, !.bootstrap = "ok"])
              ELSE SetupFailedReturns([r EXCEPT !.bootstrap = "failed"])]
        /\ setup_failures' = IF o = "raise" THEN setup_failures + 1 ELSE setup_failures
    /\ UNCHANGED <<pure_vars, course_questions, counters, errors_502, connection_errors,
                   run_pc, mode, ramp_vars, stats, max_seen>>

\* start(): the channel is open; the first question is taken
ConnectOk(s) ==
    /\ SessionAt(s, "connect")
    /\ sess' = [sess EXCEPT ![s] =
          Resume(SendNextQuestion([sess[s] EXCEPT !.ws = "open", !.caller = "start"]))]
    /\ UNCHANGED <<pure_vars, course_questions, counters, error_counters, run_pc, mode,
                   ramp_vars, stats, max_seen>>

\* start(): websockets.connect raises e; the except clause that catches it
\* classifies it, counts it and cleans up; the finally clause returns
ConnectFails(s, e) ==
    /\ SessionAt(s, "connect")
    /\ LET r == sess[s] IN
        /\ sess' = [sess EXCEPT ![s] =
              StartReturns([r EXCEPT !.connection_error_type = Classify(e),
                                     !.left_by = "error",
                                     !.slots = Released(r),
                                     !.waiting_for_response = FALSE])]
        /\ concurrent_invocations' =
              CleanupPending(concurrent_invocations, r.waiting_for_response)
    /\ errors_502' = IF CountedAs(e) = "502" THEN errors_502 + 1 ELSE errors_502
    /\ connection_errors' =
          IF CountedAs(e) = "connection" THEN connection_errors + 1
          ELSE connection_errors
    /\ Track(concurrent_invocations')
    /\ UNCHANGED <<pure_vars, course_questions, peak_concurrent, total_invocations_started,
                   total_invocations_completed, setup_failures, run_pc, mode,
                   ramp_vars, stats>>

\* send_next_question after "await ws.send(...)": on success the counters are
\* incremented under the lock and the session waits for the response; on
\* ConnectionClosed it returns; on another exception it calls itself for the
\* next question unless the channel is closed. A channel the program has seen
\* closed stays closed.
SendCompletes(s, o) ==
    /\ SessionAt(s, "send")
    /\ LET r == sess[s] IN
        /\ (o \in {"ok", "error_open"}) => r.ws = "open"
        /\ IF o = "ok"
           THEN /\ sess' = [sess EXCEPT ![s] = Resume(
                        [r EXCEPT !.questions_sent_count = @ + 1,
                                  !.waiting_for_response = TRUE,
                                  !.outstanding = @ + 1,
                                  !.slots = @ + 1,
                                  !.pc = "return"])]
                /\ concurrent_invocations' = IncrementCurrent(concurrent_invocations)
                /\ total_invocations_started' = total_invocations_started + 1
                /\ peak_concurrent' =
                      UpdatePeak(peak_concurrent, concurrent_invocations')
           ELSE /\ sess' = [sess EXCEPT ![s] = Resume(
                        IF o = "error_open"
                        THEN SendNextQuestion(r)
                        ELSE [r EXCEPT !.ws = "closed",
                                       !.closed_on_send = @ \/ (o = "closed"),
                                       !.pc = "return"])]
                /\ UNCHANGED <<concurrent_invocations, total_invocations_started,
                               peak_concurrent>>
    /\ Track(concurrent_invocations')
    /\ UNCHANGED <<pure_vars, course_questions, total_invocations_completed, error_counters,
                   run_pc, mode, ramp_vars, stats>>

\* start(): the receive loop yields message m (a message the server sent,
\* possibly buffered before the channel was closed); handle_message runs and
\* the loop checks whether to leave
HandleInbound(s, m) ==
    /\ SessionAt(s, "listen")
    /\ LET r == sess[s] IN
        /\ IsTerminal(m) =>
              r.responses_received_count <
                  Len(r.pending_questions) + MaxExtraResponses
        /\ sess' = [sess EXCEPT ![s] = Resume(HandleMessage(r, m))]
        /\ concurrent_invocations' =
              IF IsTerminal(m)
              THEN DecrementOnCompletion(concurrent_invocations, r.waiting_for_response)
              ELSE concurrent_invocations
        /\ total_invocations_completed' =
              IF IsTerminal(m) /\ r.waiting_for_response
              THEN total_invocations_completed + 1
              ELSE total_invocations_completed
    /\ Track(concurrent_invocations')
    /\ UNCHANGED <<idle_vars, course_questions, peak_concurrent, total_invocations_started,
                   error_counters, run_pc, mode, ramp_vars, stats>>

Receive(s, m) == HandleInbound(s, m) /\ UNCHANGED last_message

\* the same step, noting which kind of message was handled
ReceiveNoted(s, m) == HandleInbound(s, m) /\ last_message' = m.kind

\* start(): the receive loop finds the channel closed (by the remote side, or
\* by this session's own ws.close()). After a normal closure the iteration
\* just ends; after an abnormal one ConnectionClosed is raised and the inner
\* except clause records it and cleans up. Either way the finally clause
\* returns.
LoopEnds(s, how) ==
    /\ SessionAt(s, "listen")
    /\ LET r == sess[s] IN
        IF how = "closed_ok"
        THEN /\ sess' = [sess EXCEPT ![s] =
                    StartReturns([r EXCEPT !.left_by = "closure"])]
             /\ UNCHANGED concurrent_invocations
        ELSE /\ sess' = [sess EXCEPT ![s] =
                    StartReturns([r EXCEPT
                        !.left_by = "closure",
                        !.connection_error_type = "Connection_Closed_By_Server",
                        !.slots = Released(r),
                        !.waiting_for_response = FALSE])]
             /\ concurrent_invocations' =
                    CleanupPending(concurrent_invocations, r.waiting_for_response)
    /\ Track(concurrent_invocations')
    /\ UNCHANGED <<pure_vars, course_questions, peak_concurrent, total_invocations_started,
                   total_invocations_completed, error_counters, run_pc, mode,
                   ramp_vars, stats>>

(***************************************************************************)
(* StatsAggregator: the report of a run.                                   *)
(***************************************************************************)
NoStats == [total_sessions |-> -1]

\* run_progressive_load_test: the record that stands for a task that raised
\* (it has no connection_error_type: reading it yields None)
ExceptionResult(i) ==
    [session_index |-> i, questions_sent |-> 0, responses_received |-> 0,
     successful |-> FALSE, setup_successful |-> FALSE,
     connection_error_type |-> "None"]

\* run_progressive_load_test: valid_results
ValidResults(tasks) ==
    [i \in DOMAIN tasks |->
        IF tasks[i].task = "raised" THEN ExceptionResult(i) ELSE tasks[i].result]

QuestionsSent(r) == r.questions_sent
ResponsesReceived(r) == r.responses_received
IsSuccessful(r) == r.successful
IsSetupSuccessful(r) == r.setup_successful
Is502Session(r) == r.connection_error_type = "502_Bad_Gateway"
Is503Session(r) == r.connection_error_type = "503_Service_Unavailable"
Is504Session(r) == r.connection_error_type = "504_Gateway_Timeout"
IsHandshakeSession(r) == r.connection_error_type = "Handshake_Error"
IsOtherErrorSession(r) ==
    r.connection_error_type \notin
        {"None", "502_Bad_Gateway", "503_Service_Unavailable",
         "504_Gateway_Timeout", "Handshake_Error", "Setup_Failed"}

\* a / b * 100 of the report, rounded down to a whole number
Percent(a, b) == IF b > 0 THEN (a * 100) \div b ELSE 0

\* run_load_test / run_progressive_load_test: the stats dictionary
BuildStats(total, results, stages) ==
    LET ix == DOMAIN results
        total_questions_sent == SumSeq([i \in ix |-> QuestionsSent(results[i])])
        total_responses_received ==
            SumSeq([i \in ix |-> ResponsesReceived(results[i])])
        successful_sessions == Cardinality({i \in ix : IsSuccessful(results[i])})
    IN
    [total_sessions |-> total,
     setup_successful_sessions |->
        Cardinality({i \in ix : IsSetupSuccessful(results[i])}),
     successful_sessions |-> successful_sessions,
     failed_sessions |-> total - successful_sessions,
     total_questions_sent |-> total_questions_sent,
     total_responses_received |-> total_responses_received,
     success_rate |-> Percent(total_responses_received, total_questions_sent),
     session_success_rate |-> Percent(successful_sessions, total),
     peak_concurrent_invocations |-> peak_concurrent,
     final_concurrent_invocations |-> concurrent_invocations,
     total_invocations_started |-> total_invocations_started,
     total_invocations_completed |-> total_invocations_completed,
     error_statistics |->
        [bad_gateway_count |-> errors_502,
         bad_gateway_sessions |->
            Cardinality({i \in ix : Is502Session(results[i])}),
         service_unavailable_sessions |->
            Cardinality({i \in ix : Is503Session(results[i])}),
         gateway_timeout_sessions |->
            Cardinality({i \in ix : Is504Session(results[i])}),
         handshake_errors |->
            Cardinality({i \in ix : IsHandshakeSession(results[i])}),
         other_connection_errors |->
            Cardinality({i \in ix : IsOtherErrorSession(results[i])}),
         total_connection_errors |-> connection_errors,
         setup_failures |-> setup_failures],
     ramp_stages |-> stages,
     individual_results |-> results]

(***************************************************************************)
(* The run controllers.                                                    *)
(***************************************************************************)
\* "Reset global counters" of both controllers
\* faulty variant: the totals of the previous run are kept
ResetCountersKeepsTotals ==
    /\ concurrent_invocations' = 0
    /\ peak_concurrent' = 0
    /\ UNCHANGED <<total_invocations_started, total_invocations_completed>>
    /\ max_seen' = 0

ResetCounters ==
    /\ concurrent_invocations' = 0
    /\ peak_concurrent' = 0
    /\ total_invocations_started' = 0
    /\ total_invocations_completed' = 0
    /\ max_seen' = 0

\* run_load_test up to "await asyncio.gather(*tasks)"
StartFlat(n) ==
    /\ run_pc = "idle"
    /\ ResetCounters
    /\ sess' = CreateSessionTasks(n, 1)
    /\ mode' = "flat"
    /\ num_sessions' = n
    /\ run_pc' = "gather"
    /\ UNCHANGED <<pure_vars, course_questions, error_counters, start_sessions,
                   max_sessions, increment, current_total, stage_num,
                   session_index, ramp_stages, stats>>

\* the list create_session_tasks returns: the task objects of the sessions
\* numbered from start_session_index, each named by its session's number
TaskHandles(count, start_session_index) ==
    [i \in 1..count |-> start_session_index + i - 1]

\* the loop condition of the ramp: sleep before another stage, or go on to
\* the joint wait
AfterStage(total, max) == IF total < max THEN "sleep" ELSE "gather"

\* run_progressive_load_test up to its first suspension point: stage 1
StartStaged(start, max, inc) ==
    /\ run_pc = "idle"
    /\ ResetCounters
    /\ sess' = CreateSessionTasks(start, 1)
    /\ mode' = "staged"
    /\ start_sessions' = start
    /\ max_sessions' = max
    /\ increment' = inc
    /\ session_index' = 1 + start
    /\ ramp_stages' = <<[stage |-> 1, sessions |-> start,
                         cumulative_sessions |-> start,
                         tasks |-> TaskHandles(start, 1)]>>
    /\ current_total' = start
    /\ stage_num' = 2
    /\ run_pc' = AfterStage(start, max)
    /\ UNCHANGED <<pure_vars, course_questions, error_counters, num_sessions, stats>>

\* faulty variant: the last stage is not clipped to the remaining budget
NextIncrementUnclipped(inc, max, total) == inc

\* next_increment = min(increment, max_sessions - current_total)
NextIncrement(inc, max, total) == Min(inc, max - total)

\* run_progressive_load_test: asyncio.sleep(ramp_interval) is over; the next
\* stage is added and recorded
RampStep ==
    /\ run_pc = "sleep"
    /\ LET next_increment == NextIncrement(increment, max_sessions, current_total) IN
        /\ current_total' = current_total + next_increment
        /\ sess' = sess \o CreateSessionTasks(next_increment, session_index)
        /\ session_index' = session_index + next_increment
        /\ ramp_stages' = Append(ramp_stages,
              [stage |-> stage_num, sessions |-> next_increment,
               cumulative_sessions |-> current_total',
               tasks |-> TaskHandles(next_increment, session_index)])
        /\ stage_num' = stage_num + 1
        /\ run_pc' = AfterStage(current_total', max_sessions)
    /\ UNCHANGED <<pure_vars, course_questions, counters, error_counters, mode,
                   num_sessions, start_sessions, max_sessions, increment, stats,
                   max_seen>>

\* run_progressive_load_test is cancelled in "await asyncio.sleep(ramp_interval)":
\* CancelledError is raised there, the finally clause cancels the monitoring
\* task and the error leaves the function; the session tasks, created with
\* asyncio.create_task, are not touched
CancelController ==
    /\ run_pc = "sleep"
    /\ run_pc' = "cancelled"
    /\ UNCHANGED <<pure_vars, course_questions, sess, counters, error_counters,
                   mode, ramp_vars, stats, max_seen>>

AllDone(tasks) == \A i \in DOMAIN tasks : tasks[i].task # "running"
SomeRaised(tasks) == \E i \in DOMAIN tasks : tasks[i].task = "raised"

\* faulty variant: the joint wait ends with the first task that finishes
GatherReadyOnFirst(m, tasks) == \E i \in DOMAIN tasks : tasks[i].task # "running"

\* asyncio.gather: without return_exceptions (flat mode) the first exception of
\* a task is raised to the caller at once; otherwise it returns when every
\* task has finished
GatherReady(m, tasks) == AllDone(tasks) \/ (m = "flat" /\ SomeRaised(tasks))

\* the joint wait is over: the run returns its report, or (flat mode) the
\* exception of a session task leaves run_load_test
GatherReturns ==
    /\ run_pc = "gather"
    /\ GatherReady(mode, sess)
    /\ IF mode = "flat" /\ SomeRaised(sess)
       THEN /\ run_pc' = "raised"
            /\ UNCHANGED stats
       ELSE /\ run_pc' = "returned"
            /\ stats' =
                IF mode = "flat"
                THEN BuildStats(num_sessions, [i \in DOMAIN sess |-> sess[i].result], <<>>)
                ELSE BuildStats(Len(sess), ValidResults(sess), ramp_stages)
    /\ UNCHANGED <<pure_vars, course_questions, sess, counters, error_counters, mode,
                   ramp_vars, max_seen>>

(***************************************************************************)
(* The specification of the engine.                                        *)
(***************************************************************************)
\* the engine before a run
EngineInit ==
    /\ course_questions \in PoolConfigs
    /\ sess = <<>>
    /\ concurrent_invocations = 0
    /\ peak_concurrent = 0
    /\ total_invocations_started = 0
    /\ total_invocations_completed = 0
    /\ errors_502 = 0
    /\ connection_errors = 0
    /\ setup_failures = 0
    /\ run_pc = "idle"
    /\ mode = "none"
    /\ num_sessions = 0
    /\ start_sessions = 0
    /\ max_sessions = 0
    /\ increment = 0
    /\ current_total = 0
    /\ stage_num = 0
    /\ session_index = 0
    /\ ramp_stages = <<>>
    /\ stats = NoStats
    /\ max_seen = 0

\* no error is being classified
NoError == [type |-> "None", message |-> {}]

\* the error is not classified yet
NotClassified == [connection_error_type |-> "pending", counted |-> "pending"]

\* decrypt has not been called
NotDecrypted ==
    [status |-> "pending", output |-> <<>>, parts |-> 0, demorphed |-> FALSE,
     deciphered |-> FALSE]

\* run_load_test_endpoint has not answered
NoResponse == [status |-> 0, statistics |-> NoStats]

\* no request has arrived
EndpointIdle == request = "none" /\ response = NoResponse

\* the tasks of the lock model: the run controller and two sessions
LockTasks == {"run", "s1", "s2"}

\* nobody holds the lock; no task of the lock model has begun
LockIdle ==
    /\ lock_holder = "free"
    /\ task_at = [t \in LockTasks |->
                    [pc |-> IF t = "run" THEN "idle" ELSE "unborn",
                     waiting_for_response |-> FALSE,
                     sent |-> 0]]

\* no key or IV has been morphed
MorphIdle ==
    morph_run = [pc |-> "idle", input |-> <<>>, morphed |-> <<>>, demorphed |-> <<>>]

\* the counters of one session runner, of either engine, after __init__, and
\* what it has done to the channel: closed it, and the questions it sent
RunnerCounters ==
    [current_question_index |-> 0, questions_sent_count |-> 0,
     responses_received_count |-> 0, all_questions_sent |-> FALSE,
     closed |-> FALSE, sends |-> <<>>]

\* SessionRunner(index) after setup() and the queue building of start(), with n
\* queued questions, beside an AsyncSessionRunner with the same queue; pc is
\* the statement the session's thread is at, lock is self.lock
SessionRunner(n) ==
    [n |-> n, pc |-> "new", lock |-> "free", depth |-> 0, outcomes |-> <<>>,
     inbound |-> 0, thread |-> RunnerCounters, coop |-> RunnerCounters]

\* no thread-per-session run is modelled
SyncIdle == sync_run = SessionRunner(0)

\* no run has been requested beside the engine's run
NoSecondRun == second_run = [pc |-> "none", stats |-> NoStats]

\* no inbound message has been noted
NothingNoted == last_message = "none"

\* the codec has done nothing
CodecIdle ==
    /\ codec_pc = "idle"
    /\ input_string = <<>>
    /\ encrypted_data = <<>>
    /\ decrypted = NotDecrypted

Init ==
    /\ EngineInit
    /\ raw_error = NoError
    /\ classified = NotClassified
    /\ CodecIdle
    /\ EndpointIdle
    /\ NothingNoted
    /\ LockIdle
    /\ MorphIdle
    /\ SyncIdle
    /\ NoSecondRun

Sessions == 1..MaxSessions

\* the staged configurations of the engine's specification: ramps up to
\* MaxSessions sessions
StagedConfigs ==
    [start : 0..MaxSessions, max : {MaxSessions}, inc : 1..MaxSessions]

Next ==
    \/ \E n \in 0..MaxSessions : StartFlat(n)
    \/ \E c \in StagedConfigs : StartStaged(c.start, c.max, c.inc)
    \/ RampStep
    \/ GatherReturns
    \/ \E s \in Sessions, o \in TokenOutcomes : GenerateTokenReturns(s, o)
    \/ \E s \in Sessions, o \in ChatOutcomes : CreateChatReturns(s, o)
    \/ \E s \in Sessions : ConnectOk(s)
    \/ \E s \in Sessions, e \in ConnectErrors : ConnectFails(s, e)
    \/ \E s \in Sessions, o \in SendOutcomes : SendCompletes(s, o)
    \/ \E s \in Sessions, m \in PlainMessages : Receive(s, m)
    \/ \E s \in Sessions, how \in Closures : LoopEnds(s, how)

Spec == Init /\ [][Next]_vars

(***************************************************************************)
(* The tracker lock, statement by statement. Each task is at a suspension  *)
(* point (an await on the network, on a sleep or on the joint wait), at    *)
(* the entry of an "async with _concurrent_lock" block, or inside one. The *)
(* event loop runs one task at a time: a task that is not suspended keeps  *)
(* the processor until its next suspension point.                          *)
(***************************************************************************)
\* the awaits on network I/O, the ramp sleep and the joint wait
SuspensionPoints == {"idle", "sleep", "gather", "unborn", "connect", "send", "listen", "done"}

\* the entries of the "async with _concurrent_lock" blocks
LockEntries == {"reset_enter", "inc_enter", "dec_enter", "cleanup_enter"}

\* the bodies of the blocks
LockBodies == {"reset", "inc", "dec", "cleanup"}

\* task u is suspended: at an await, or waiting for a lock another task holds
Suspended(u) ==
    \/ task_at[u].pc \in SuspensionPoints
    \/ task_at[u].pc \in LockEntries /\ lock_holder \notin {"free", u}

\* the event loop may run task t
MayRun(t) == \A u \in LockTasks \ {t} : Suspended(u)

\* what the lock model leaves alone
lock_frame == <<course_questions, sess, error_counters, run_pc, mode, ramp_vars, stats,
                max_seen, classifier_vars, codec_vars, endpoint_vars, last_message,
                morph_run, sync_run, second_run>>

\* task t moves to statement pc
Goto(t, pc) == task_at' = [task_at EXCEPT ![t].pc = pc]

\* faulty variant: leaving the block does not release the lock
ReleaseSkipped(holder) == holder

\* __aexit__ of the "async with" block
Release(holder) == "free"

\* "async with _concurrent_lock:" is entered (the lock is free)
EnterBlock(t) ==
    /\ MayRun(t)
    /\ task_at[t].pc \in LockEntries
    /\ lock_holder = "free"
    /\ lock_holder' = t
    /\ Goto(t, CASE task_at[t].pc = "reset_enter" -> "reset"
                 [] task_at[t].pc = "inc_enter" -> "inc"
                 [] task_at[t].pc = "dec_enter" -> "dec"
                 [] OTHER -> "cleanup")
    /\ UNCHANGED <<counters, lock_frame>>

\* run_load_test / run_progressive_load_test is called
RunCalled ==
    /\ MayRun("run")
    /\ task_at["run"].pc = "idle"
    /\ Goto("run", "reset_enter")
    /\ UNCHANGED <<counters, lock_holder, lock_frame>>

\* the reset block, then the session tasks are created and the controller
\* suspends in the ramp sleep or in the joint wait
ResetBlock(next) ==
    /\ MayRun("run")
    /\ task_at["run"].pc = "reset"
    /\ concurrent_invocations' = 0
    /\ peak_concurrent' = 0
    /\ total_invocations_started' = 0
    /\ total_invocations_completed' = 0
    /\ lock_holder' = Release(lock_holder)
    /\ task_at' = [t \in LockTasks |->
                     IF t = "run" THEN [task_at[t] EXCEPT !.pc = next]
                     ELSE [task_at[t] EXCEPT !.pc = "connect"]]
    /\ UNCHANGED lock_frame

\* asyncio.sleep(ramp_interval) is over and the ramp goes on to the joint wait
SleepOver ==
    /\ MayRun("run")
    /\ task_at["run"].pc = "sleep"
    /\ Goto("run", "gather")
    /\ UNCHANGED <<counters, lock_holder, lock_frame>>

\* websockets.connect returned: send_next_question runs up to "await ws.send"
Connected(t) ==
    /\ MayRun(t)
    /\ task_at[t].pc = "connect"
    /\ Goto(t, "send")
    /\ UNCHANGED <<counters, lock_holder, lock_frame>>

\* "await ws.send(...)" returned
SendReturned(t) ==
    /\ MayRun(t)
    /\ task_at[t].pc = "send"
    /\ Goto(t, "inc_enter")
    /\ UNCHANGED <<counters, lock_holder, lock_frame>>

\* the block of send_next_question, then back to the receive loop
IncrementBlock(t) ==
    /\ MayRun(t)
    /\ task_at[t].pc = "inc"
    /\ concurrent_invocations' = concurrent_invocations + 1
    /\ total_invocations_started' = total_invocations_started + 1
    /\ peak_concurrent' = Max(peak_concurrent, concurrent_invocations')
    /\ UNCHANGED total_invocations_completed
    /\ lock_holder' = Release(lock_holder)
    /\ task_at' = [task_at EXCEPT ![t] =
                     [pc |-> "listen", waiting_for_response |-> TRUE, sent |-> @.sent + 1]]
    /\ UNCHANGED lock_frame

\* the receive loop yields a terminal message: handle_message reaches its block
TerminalReceived(t) ==
    /\ MayRun(t)
    /\ task_at[t].pc = "listen"
    /\ Goto(t, "dec_enter")
    /\ UNCHANGED <<counters, lock_holder, lock_frame>>

\* the block of handle_message, then the next question is sent or, with the
\* queue exhausted, the session is over
DecrementBlock(t) ==
    /\ MayRun(t)
    /\ task_at[t].pc = "dec"
    /\ IF task_at[t].waiting_for_response
       THEN /\ concurrent_invocations' = concurrent_invocations - 1
            /\ total_invocations_completed' = total_invocations_completed + 1
       ELSE UNCHANGED <<concurrent_invocations, total_invocations_completed>>
    /\ UNCHANGED <<peak_concurrent, total_invocations_started>>
    /\ lock_holder' = Release(lock_holder)
    /\ task_at' = [task_at EXCEPT ![t] =
                     [pc |-> IF @.sent < MaxQueue THEN "send" ELSE "done",
                      waiting_for_response |-> FALSE, sent |-> @.sent]]
    /\ UNCHANGED lock_frame

\* the receive loop ends with ConnectionClosed: the except clause cleans up
\* under the lock when a response is outstanding
ChannelClosed(t) ==
    /\ MayRun(t)
    /\ task_at[t].pc = "listen"
    /\ Goto(t, IF task_at[t].waiting_for_response THEN "cleanup_enter" ELSE "done")
    /\ UNCHANGED <<counters, lock_holder, lock_frame>>

\* the cleanup block, then start() returns
CleanupBlock(t) ==
    /\ MayRun(t)
    /\ task_at[t].pc = "cleanup"
    /\ concurrent_invocations' = concurrent_invocations - 1
    /\ UNCHANGED <<peak_concurrent, total_invocations_started, total_invocations_completed>>
    /\ lock_holder' = Release(lock_holder)
    /\ task_at' = [task_at EXCEPT ![t] =
                     [pc |-> "done", waiting_for_response |-> FALSE, sent |-> @.sent]]
    /\ UNCHANGED lock_frame

LockNext ==
    \/ RunCalled
    \/ \E next \in {"sleep", "gather"} : ResetBlock(next)
    \/ SleepOver
    \/ \E t \in LockTasks : EnterBlock(t)
    \/ \E t \in LockTasks \ {"run"} :
          \/ Connected(t)
          \/ SendReturned(t)
          \/ IncrementBlock(t)
          \/ TerminalReceived(t)
          \/ DecrementBlock(t)
          \/ ChannelClosed(t)
          \/ CleanupBlock(t)

LockSpec == Init /\ [][LockNext]_vars

(***************************************************************************)
(* A run in a process that has run before: the module-level counters hold  *)
(* what the earlier run left (it started at least two requests; a slot a   *)
(* session leaked may still be counted as in flight).                      *)
(***************************************************************************)
LeftoverCounters ==
    {c \in [current : 0..1, peak : 1..MaxLeftover, started : 2..MaxLeftover,
            completed : 0..MaxLeftover] :
        /\ c.current <= c.peak
        /\ c.peak <= c.started
        /\ c.completed <= c.started}

RerunInit ==
    /\ \E c \in LeftoverCounters :
          /\ concurrent_invocations = c.current
          /\ peak_concurrent = c.peak
          /\ total_invocations_started = c.started
          /\ total_invocations_completed = c.completed
    /\ course_questions \in PoolConfigs
    /\ sess = <<>>
    /\ errors_502 = 0
    /\ connection_errors = 0
    /\ setup_failures = 0
    /\ run_pc = "idle"
    /\ mode = "none"
    /\ num_sessions = 0
    /\ start_sessions = 0
    /\ max_sessions = 0
    /\ increment = 0
    /\ current_total = 0
    /\ stage_num = 0
    /\ session_index = 0
    /\ ramp_stages = <<>>
    /\ stats = NoStats
    /\ max_seen = 0
    /\ raw_error = NoError
    /\ classified = NotClassified
    /\ CodecIdle
    /\ EndpointIdle
    /\ NothingNoted
    /\ LockIdle
    /\ MorphIdle
    /\ SyncIdle
    /\ NoSecondRun

RerunSpec == RerunInit /\ [][Next]_vars

(***************************************************************************)
(* The job trigger (api_server.py): one request to POST /run-load-test.    *)
(***************************************************************************)
\* the bodies of a request: not JSON, JSON that is not an object, and an
\* object asking for a flat or a staged run
RequestBodies == {"invalid_json", "not_object", "flat", "staged"}

\* web.json_response(..., status=...) of the two except clauses
ErrorResponse(code) == [status |-> code, statistics |-> NoStats]

\* json.dumps, which web.json_response applies to its data, accepts the
\* summary: numbers, strings, booleans, None, lists and dicts of these are
\* written, a task object is not
JsonSerializable(st) ==
    \A i \in DOMAIN st.ramp_stages : st.ramp_stages[i].tasks = <<>>

\* run_load_test_endpoint: "data = await request.json()" is over; a body that
\* is not JSON is answered with status 400, one that is not an object raises
\* in data.get and is answered with status 500
ReadRequest(body) ==
    /\ request = "none"
    /\ run_pc = "idle"
    /\ request' = body
    /\ response' = CASE body = "invalid_json" -> ErrorResponse(400)
                     [] body = "not_object" -> ErrorResponse(500)
                     [] OTHER -> NoResponse
    /\ UNCHANGED <<engine_vars, classifier_vars, codec_vars, last_message, lock_vars, morph_run, sync_run, second_run>>

\* run_load_test_endpoint: use_progressive_rampup is false
RunFlat(n) == request = "flat" /\ StartFlat(n)

\* run_load_test_endpoint: use_progressive_rampup is true
RunStaged(start, max, inc) == request = "staged" /\ StartStaged(start, max, inc)

\* run_load_test_endpoint: the run is over; its summary is returned with
\* status 200, and an exception, of the run or of building the response, with
\* status 500
Respond ==
    /\ request \in {"flat", "staged"}
    /\ response = NoResponse
    /\ run_pc \in {"returned", "raised"}
    /\ response' = IF run_pc = "returned" /\ JsonSerializable(stats)
                   THEN [status |-> 200, statistics |-> stats]
                   ELSE ErrorResponse(500)
    /\ UNCHANGED <<engine_vars, classifier_vars, codec_vars, request, last_message, lock_vars, morph_run, sync_run, second_run>>

JobNext ==
    \/ \E body \in RequestBodies : ReadRequest(body)
    \/ \E n \in 0..MaxSessions : RunFlat(n)
    \/ \E c \in StagedConfigs : RunStaged(c.start, c.max, c.inc)
    \/ RampStep
    \/ GatherReturns
    \/ Respond
    \/ \E s \in Sessions, o \in TokenOutcomes : GenerateTokenReturns(s, o)
    \/ \E s \in Sessions, o \in ChatOutcomes : CreateChatReturns(s, o)
    \/ \E s \in Sessions : ConnectOk(s)
    \/ \E s \in Sessions, e \in ConnectErrors : ConnectFails(s, e)
    \/ \E s \in Sessions, o \in SendOutcomes : SendCompletes(s, o)
    \/ \E s \in Sessions, m \in PlainMessages : Receive(s, m)
    \/ \E s \in Sessions, how \in Closures : LoopEnds(s, how)

JobSpec == Init /\ [][JobNext]_vars

(***************************************************************************)
(* Staged runs whose controller may be cancelled while it sleeps between   *)
(* two stages.                                                             *)
(***************************************************************************)
CancelNext ==
    \/ \E c \in StagedConfigs : StartStaged(c.start, c.max, c.inc)
    \/ RampStep
    \/ CancelController
    \/ GatherReturns
    \/ \E s \in Sessions, o \in TokenOutcomes : GenerateTokenReturns(s, o)
    \/ \E s \in Sessions, o \in ChatOutcomes : CreateChatReturns(s, o)
    \/ \E s \in Sessions : ConnectOk(s)
    \/ \E s \in Sessions, e \in ConnectErrors : ConnectFails(s, e)
    \/ \E s \in Sessions, o \in SendOutcomes : SendCompletes(s, o)
    \/ \E s \in Sessions, m \in PlainMessages : Receive(s, m)
    \/ \E s \in Sessions, how \in Closures : LoopEnds(s, how)

CancelSpec == Init /\ [][CancelNext]_vars

(***************************************************************************)
(* One session alone, with every inbound message a server may send         *)
(* (attribute updates included).                                           *)
(***************************************************************************)
SessionNext ==
    \/ StartFlat(1)
    \/ GatherReturns
    \/ \E o \in TokenOutcomes : GenerateTokenReturns(1, o)
    \/ \E o \in ChatOutcomes : CreateChatReturns(1, o)
    \/ ConnectOk(1)
    \/ \E e \in ConnectErrors : ConnectFails(1, e)
    \/ \E o \in SendOutcomes : SendCompletes(1, o)
    \/ \E m \in InboundMessages : Receive(1, m)
    \/ \E how \in Closures : LoopEnds(1, how)

SessionSpec == Init /\ [][SessionNext]_vars

(***************************************************************************)
(* The same session, with the kind of each handled message noted.          *)
(***************************************************************************)
MessageNext ==
    \/ StartFlat(1)
    \/ GatherReturns
    \/ \E o \in TokenOutcomes : GenerateTokenReturns(1, o)
    \/ \E o \in ChatOutcomes : CreateChatReturns(1, o)
    \/ ConnectOk(1)
    \/ \E e \in ConnectErrors : ConnectFails(1, e)
    \/ \E o \in SendOutcomes : SendCompletes(1, o)
    \/ \E m \in InboundMessages : ReceiveNoted(1, m)
    \/ \E how \in Closures : LoopEnds(1, how)

MessageSpec == Init /\ [][MessageNext]_vars

(***************************************************************************)
(* One session with pools of every size up to MaxPool for each course.     *)
(***************************************************************************)
QueuePools == [{COURSES[1], COURSES[2]} -> 0..MaxPool]

QueueInit ==
    /\ course_questions \in QueuePools
    /\ sess = <<>>
    /\ concurrent_invocations = 0
    /\ peak_concurrent = 0
    /\ total_invocations_started = 0
    /\ total_invocations_completed = 0
    /\ errors_502 = 0
    /\ connection_errors = 0
    /\ setup_failures = 0
    /\ run_pc = "idle"
    /\ mode = "none"
    /\ num_sessions = 0
    /\ start_sessions = 0
    /\ max_sessions = 0
    /\ increment = 0
    /\ current_total = 0
    /\ stage_num = 0
    /\ session_index = 0
    /\ ramp_stages = <<>>
    /\ stats = NoStats
    /\ max_seen = 0
    /\ raw_error = NoError
    /\ classified = NotClassified
    /\ CodecIdle
    /\ EndpointIdle
    /\ NothingNoted
    /\ LockIdle
    /\ MorphIdle
    /\ SyncIdle
    /\ NoSecondRun

QueueNext ==
    \/ StartFlat(1)
    \/ GatherReturns
    \/ \E o \in TokenOutcomes : GenerateTokenReturns(1, o)
    \/ \E o \in ChatOutcomes : CreateChatReturns(1, o)
    \/ ConnectOk(1)
    \/ \E e \in ConnectErrors : ConnectFails(1, e)
    \/ \E o \in SendOutcomes : SendCompletes(1, o)
    \/ \E m \in PlainMessages : Receive(1, m)
    \/ \E how \in Closures : LoopEnds(1, how)

QueueSpec == QueueInit /\ [][QueueNext]_vars

(***************************************************************************)
(* One session of a run in a process that has run before: the module-level *)
(* error counters hold what the sessions of the earlier runs added to them *)
(* (up to MaxEarlierErrors each).                                          *)
(***************************************************************************)
LaterRunInit ==
    /\ course_questions \in PoolConfigs
    /\ sess = <<>>
    /\ concurrent_invocations = 0
    /\ peak_concurrent = 0
    /\ total_invocations_started = 0
    /\ total_invocations_completed = 0
    /\ errors_502 \in 0..MaxEarlierErrors
    /\ connection_errors \in 0..MaxEarlierErrors
    /\ setup_failures \in 0..MaxEarlierErrors
    /\ run_pc = "idle"
    /\ mode = "none"
    /\ num_sessions = 0
    /\ start_sessions = 0
    /\ max_sessions = 0
    /\ increment = 0
    /\ current_total = 0
    /\ stage_num = 0
    /\ session_index = 0
    /\ ramp_stages = <<>>
    /\ stats = NoStats
    /\ max_seen = 0
    /\ raw_error = NoError
    /\ classified = NotClassified
    /\ CodecIdle
    /\ EndpointIdle
    /\ NothingNoted
    /\ LockIdle
    /\ MorphIdle
    /\ SyncIdle
    /\ NoSecondRun

LaterRunSpec == LaterRunInit /\ [][QueueNext]_vars

(***************************************************************************)
(* The ramp alone: the stages run_progressive_load_test records for a      *)
(* range of configurations, whatever the sessions do.                      *)
(***************************************************************************)
\* the ramp of the worked example: 10 sessions, 30 more per stage, up to 95
ExampleRamp == [start |-> 10, max |-> 95, inc |-> 30]

RampConfigs ==
    [start : 0..MaxRampStart, max : 0..MaxRampMax, inc : 1..MaxRampIncrement]
    \cup {ExampleRamp}

RampNext ==
    \/ \E c \in RampConfigs : StartStaged(c.start, c.max, c.inc)
    \/ RampStep

RampSpec == Init /\ [][RampNext]_vars

(***************************************************************************)
(* The ramp for every integer configuration the trigger passes on, an      *)
(* increment of zero or less included; the stages are followed up to stage *)
(* MaxStages.                                                              *)
(***************************************************************************)
IntegerRampConfigs ==
    [start : 0..MaxSessions, max : 0..MaxRampStart, inc : (0 - MaxRampDecrement)..MaxSessions]

IntegerRampNext ==
    \/ \E c \in IntegerRampConfigs : StartStaged(c.start, c.max, c.inc)
    \/ stage_num <= MaxStages /\ RampStep

IntegerRampSpec == Init /\ [][IntegerRampNext]_vars

(***************************************************************************)
(* A run against a server that answers: every bootstrap and every connect  *)
(* succeeds, every send is written, and the server answers each request    *)
(* with exactly one terminal response carrying the answer text (after any  *)
(* number of chunks) and completes the closing handshake the session       *)
(* starts. Every task that can run is eventually run by the event loop.    *)
(***************************************************************************)
\* the terminal response of a server that answers
TextAnswer ==
    [kind |-> "object", session_attributes |-> "absent", complete_response |-> "text"]

\* the server answers the outstanding request of session s
Answer(s) ==
    /\ s \in DOMAIN sess
    /\ sess[s].outstanding = 1
    /\ Receive(s, TextAnswer)

\* the server streams a chunk to session s
Chunk(s) ==
    \E m \in PlainMessages : ~IsTerminal(m) /\ Receive(s, m)

\* the receive loop of session s observes the closure the session started
OwnClosureObserved(s) ==
    /\ s \in DOMAIN sess
    /\ sess[s].ws = "closed"
    /\ LoopEnds(s, "closed_ok")

\* the steps of session s that make progress
AnsweredStep(s) ==
    \/ GenerateTokenReturns(s, "token_sid")
    \/ GenerateTokenReturns(s, "token_nosid")
    \/ CreateChatReturns(s, "sid")
    \/ ConnectOk(s)
    \/ SendCompletes(s, "ok")
    \/ Answer(s)
    \/ OwnClosureObserved(s)

AnsweredNext ==
    \/ \E n \in 0..MaxSessions : StartFlat(n)
    \/ \E c \in StagedConfigs : StartStaged(c.start, c.max, c.inc)
    \/ RampStep
    \/ GatherReturns
    \/ \E s \in Sessions : AnsweredStep(s)
    \/ \E s \in Sessions : Chunk(s)

AnsweredSpec ==
    /\ Init
    /\ [][AnsweredNext]_vars
    /\ WF_vars(RampStep)
    /\ WF_vars(GatherReturns)
    /\ \A s \in Sessions : WF_vars(AnsweredStep(s))

(***************************************************************************)
(* The same run against a server that may stay silent: it accepts every    *)
(* connection and every request and keeps the channel open, but nothing    *)
(* obliges it to answer. The event loop still runs every task that can     *)
(* run.                                                                    *)
(***************************************************************************)
\* the steps of session s that do not wait for the server's answer
SilentStep(s) ==
    \/ GenerateTokenReturns(s, "token_sid")
    \/ GenerateTokenReturns(s, "token_nosid")
    \/ CreateChatReturns(s, "sid")
    \/ ConnectOk(s)
    \/ SendCompletes(s, "ok")
    \/ OwnClosureObserved(s)

SilentSpec ==
    /\ Init
    /\ [][AnsweredNext]_vars
    /\ WF_vars(RampStep)
    /\ WF_vars(GatherReturns)
    /\ \A s \in Sessions : WF_vars(SilentStep(s))

(***************************************************************************)
(* The classifier alone: the except clauses of start() applied to every    *)
(* raw error (exception type and message) a failing connect can raise.     *)
(***************************************************************************)
ClassifierInit ==
    /\ EngineInit
    /\ raw_error \in RawErrors
    /\ classified = NotClassified
    /\ CodecIdle
    /\ EndpointIdle
    /\ NothingNoted
    /\ LockIdle
    /\ MorphIdle
    /\ SyncIdle
    /\ NoSecondRun

\* the except clause that catches raw_error sets connection_error_type and
\* increments one error counter (or none)
ClassifyError ==
    /\ classified = NotClassified
    /\ raw_error # NoError
    /\ classified' = [connection_error_type |-> Classify(raw_error),
                      counted |-> CountedAs(raw_error)]
    /\ UNCHANGED <<course_questions, sess, counters, error_counters, run_pc,
                   mode, ramp_vars, stats, max_seen, raw_error, codec_vars,
                   endpoint_vars, last_message, lock_vars, morph_run, sync_run, second_run>>

ClassifierNext == ClassifyError

ClassifierSpec == ClassifierInit /\ [][ClassifierNext]_vars

(***************************************************************************)
(* WireCodec (encryption.py). A text is a sequence of characters, a byte    *)
(* string a sequence of numbers 0..255.                                    *)
(***************************************************************************)
SEPARATOR == <<"r", "E", "7", "p", "R", "x", "T", "G", "l", "q", "T", "6">>
DYNAMIC_PADDING_LENGTH == 12
KEY_LENGTH == 32
IV_LENGTH == 16
\* AES.block_size
BLOCK_SIZE == 16

MORPH_RULES ==
    [c \in {"R", "W", "q", "a", "E"} |->
        CASE c = "R" -> <<"E", "f", "4", "Y", "s", "O", "2", "c", "b", "Q", "Z", "2">>
          [] c = "W" -> <<"U", "4", "B", "a", "i", "5", "Q", "n", "1", "Z", "C", "p">>
          [] c = "q" -> <<"z", "R", "2", "H", "8", "C", "d", "5", "m", "a", "E", "c">>
          [] c = "a" -> <<"y", "U", "z", "4", "P", "1", "a", "7", "D", "z", "6", "v">>
          [] c = "E" -> <<"X", "m", "5", "V", "a", "T", "2", "B", "7", "c", "9", "a">>]

\* input_string[i:i+len(t)] == t
StartsWithAt(x, i, t) ==
    /\ i + Len(t) - 1 <= Len(x)
    /\ SubSeq(x, i, i + Len(t) - 1) = t

RECURSIVE MorphString(_)
\* _morph_string
MorphString(x) ==
    IF x = <<>> THEN <<>>
    ELSE (IF Head(x) \in DOMAIN MORPH_RULES THEN MORPH_RULES[Head(x)]
          ELSE <<Head(x)>>) \o MorphString(Tail(x))

\* a morphed value matches at position i of x
MorphedAt(x, i) == \E c \in DOMAIN MORPH_RULES : StartsWithAt(x, i, MORPH_RULES[c])

RECURSIVE DemorphFrom(_, _)
\* _demorph_string: the loop from position i; the characters up to the next
\* position where a morphed value matches are copied one by one
DemorphFrom(x, i) ==
    IF \E j \in i..Len(x) : MorphedAt(x, j)
    THEN LET j == CHOOSE k \in i..Len(x) :
                    MorphedAt(x, k) /\ \A l \in i..(k - 1) : ~MorphedAt(x, l)
             c == CHOOSE d \in DOMAIN MORPH_RULES : StartsWithAt(x, j, MORPH_RULES[d])
         IN  SubSeq(x, i, j - 1) \o <<c>> \o DemorphFrom(x, j + Len(MORPH_RULES[c]))
    ELSE SubSeq(x, i, Len(x))

\* faulty variant: the morphed text is returned as it is
DemorphStringSkipped(x) == x

\* _demorph_string
DemorphString(x) == DemorphFrom(x, 1)

RECURSIVE SplitFrom(_, _, _)
\* str.split(sep): the parts of x from position i on; occurrences of sep are
\* taken from left to right and do not overlap
SplitFrom(x, sep, i) ==
    IF \E j \in i..Len(x) : StartsWithAt(x, j, sep)
    THEN LET j == CHOOSE k \in i..Len(x) :
                    StartsWithAt(x, k, sep) /\ \A l \in i..(k - 1) : ~StartsWithAt(x, l, sep)
         IN  <<SubSeq(x, i, j - 1)>> \o SplitFrom(x, sep, j + Len(sep))
    ELSE <<SubSeq(x, i, Len(x))>>

\* encrypted_data.split(SEPARATOR)
Split(x, sep) == SplitFrom(x, sep, 1)

\* string.ascii_letters + string.digits
chars ==
    <<"a", "b", "c", "d", "e", "f", "g", "h", "i", "j", "k", "l", "m",
      "n", "o", "p", "q", "r", "s", "t", "u", "v", "w", "x", "y", "z",
      "A", "B", "C", "D", "E", "F", "G", "H", "I", "J", "K", "L", "M",
      "N", "O", "P", "Q", "R", "S", "T", "U", "V", "W", "X", "Y", "Z",
      "0", "1", "2", "3", "4", "5", "6", "7", "8", "9">>

\* the characters that vary in the random strings drawn here: two with a
\* morph rule and one without (SEPARATOR holds the morphed "E", "R" and "q")
VariedChars == {"W", "a", "x"}

\* length copies of c
Fill(c, length) == [i \in 1..length |-> c]

\* _get_random_alphanumeric_string(length): any text of that length over
\* `chars`; drawn here are the texts with a varied prefix, and the texts
\* that begin with the characters of SEPARATOR
RandomAlphanumericStrings(length) ==
    {[i \in 1..length |-> IF i <= MaxVaried THEN p[i] ELSE "x"] :
        p \in [1..MaxVaried -> VariedChars]}
    \cup (IF length >= Len(SEPARATOR)
          THEN {SEPARATOR \o Fill("x", length - Len(SEPARATOR))}
          ELSE {})

\* str.encode('utf-8') of a key or IV text: one byte per character
Encode(x) ==
    [i \in 1..Len(x) |-> CHOOSE n \in 1..Len(chars) : chars[n] = x[i]]

\* AES.new(key, AES.MODE_CBC, iv): the cipher is kept as a keyed invertible
\* map on bytes
KeyShift(key, iv) == (SumSeq(key) + SumSeq(iv) + 1) % 256

\* AES.new accepts the key and the IV
ValidKey(key, iv) == Len(key) \in {16, 24, 32} /\ Len(iv) = BLOCK_SIZE

\* pad(data, AES.block_size)
Pad(data) ==
    LET n == BLOCK_SIZE - (Len(data) % BLOCK_SIZE)
    IN  data \o Fill(n, n)

\* unpad(data, AES.block_size) accepts the data
CanUnpad(data) ==
    /\ Len(data) > 0
    /\ Len(data) % BLOCK_SIZE = 0
    /\ LET n == data[Len(data)]
       IN  /\ n \in 1..BLOCK_SIZE
           /\ \A i \in (Len(data) - n + 1)..Len(data) : data[i] = n

\* unpad(data, AES.block_size)
Unpad(data) == SubSeq(data, 1, Len(data) - data[Len(data)])

\* cipher.encrypt
CipherEncrypt(key, iv, data) ==
    [i \in 1..Len(data) |-> (data[i] + KeyShift(key, iv)) % 256]

\* cipher.decrypt
CipherDecrypt(key, iv, data) ==
    [i \in 1..Len(data) |-> (data[i] + 256 - KeyShift(key, iv)) % 256]

\* the letters base64 text is written in here
B64Digits ==
    <<"A", "B", "C", "D", "E", "F", "G", "H", "I", "J", "K", "L", "M", "N", "O", "P">>

\* base64.b64encode(...).decode('utf-8'): kept as an invertible text
\* encoding, two letters per byte
B64Encode(bytes) ==
    [i \in 1..(2 * Len(bytes)) |->
        IF i % 2 = 1 THEN B64Digits[(bytes[(i + 1) \div 2] \div 16) + 1]
        ELSE B64Digits[(bytes[i \div 2] % 16) + 1]]

\* the value of a base64 letter
B64Value(c) == (CHOOSE n \in 1..Len(B64Digits) : B64Digits[n] = c) - 1

\* base64.b64decode accepts the text
CanB64Decode(x) ==
    /\ Len(x) % 2 = 0
    /\ \A i \in 1..Len(x) : \E n \in 1..Len(B64Digits) : B64Digits[n] = x[i]

\* base64.b64decode
B64Decode(x) ==
    [i \in 1..(Len(x) \div 2) |-> 16 * B64Value(x[2 * i - 1]) + B64Value(x[2 * i])]

\* bytes.decode('utf-8') accepts the bytes (single-byte characters only)
CanDecodeUtf8(bytes) == \A i \in 1..Len(bytes) : bytes[i] < 128

\* encrypt, with the three random strings it draws as parameters
EncryptWith(input, key_string, iv_string, dynamic_padding) ==
    LET key == Encode(key_string)
        iv == Encode(iv_string)
        encrypted_bytes == CipherEncrypt(key, iv, Pad(input))
        encrypted_string == B64Encode(encrypted_bytes)
        morphed_key == MorphString(key_string)
        morphed_iv == MorphString(iv_string)
    IN  morphed_key \o SEPARATOR \o morphed_iv \o SEPARATOR
            \o dynamic_padding \o encrypted_string

\* mutant of WrongPartCount: too few parts only
TooFewParts(parts) == Len(parts) < 3

\* decrypt: len(parts) != 3
WrongPartCount(parts) == Len(parts) # 3

\* padded_encrypted_string[DYNAMIC_PADDING_LENGTH:]
DropPadding(x) ==
    IF Len(x) <= DYNAMIC_PADDING_LENGTH THEN <<>>
    ELSE SubSeq(x, DYNAMIC_PADDING_LENGTH + 1, Len(x))

\* what decrypt raised, and how far it had come
Raised(status, parts, demorphed, deciphered) ==
    [status |-> status, output |-> <<>>, parts |-> Len(parts),
     demorphed |-> demorphed, deciphered |-> deciphered]

\* decrypt: the string it returns or the error it raises; unpacking parts
\* into three names raises as well when there are not three
DecryptData(data) ==
    LET parts == Split(data, SEPARATOR)
    IN  IF WrongPartCount(parts)
        THEN Raised("format_error", parts, FALSE, FALSE)
        ELSE IF Len(parts) # 3
        THEN Raised("unpack_error", parts, FALSE, FALSE)
        ELSE
        LET encrypted_string == DropPadding(parts[3])
            key_string == DemorphString(parts[1])
            iv_string == DemorphString(parts[2])
            key == Encode(key_string)
            iv == Encode(iv_string)
        IN  IF ~CanB64Decode(encrypted_string)
            THEN Raised("base64_error", parts, TRUE, FALSE)
            ELSE IF ~ValidKey(key, iv)
            THEN Raised("key_error", parts, TRUE, FALSE)
            ELSE
            LET encrypted_bytes == B64Decode(encrypted_string)
                padded_data == CipherDecrypt(key, iv, encrypted_bytes)
            IN  IF ~CanUnpad(padded_data)
                THEN Raised("padding_error", parts, TRUE, TRUE)
                ELSE IF ~CanDecodeUtf8(Unpad(padded_data))
                THEN Raised("decode_error", parts, TRUE, TRUE)
                ELSE [status |-> "ok", output |-> Unpad(padded_data),
                      parts |-> Len(parts), demorphed |-> TRUE,
                      deciphered |-> TRUE]

\* the bytes of the input strings drawn ("h", "i")
PlainBytes == {104, 105}

\* input strings, as their UTF-8 bytes
InputStrings ==
    UNION {[1..n -> PlainBytes] : n \in 0..MaxPlainLen}

\* the parts a wire string received from outside is put together from
WireParts ==
    {<<>>, <<"x", "y">>, MorphString(<<"R", "a">> \o Fill("x", KEY_LENGTH - 2)),
     MorphString(<<"E">> \o Fill("x", IV_LENGTH - 1))}

RECURSIVE Join(_, _)
\* sep.join(parts)
Join(parts, sep) ==
    IF Len(parts) = 0 THEN <<>>
    ELSE IF Len(parts) = 1 THEN parts[1]
    ELSE parts[1] \o sep \o Join(Tail(parts), sep)

\* wire strings received from outside: any text; drawn here are the texts
\* put together from one to MaxParts parts
WireStrings ==
    {Join(ps, SEPARATOR) : ps \in UNION {[1..n -> WireParts] : n \in 1..MaxParts}}

(***************************************************************************)
(* The codec alone: a string is encrypted and the result decrypted, or a   *)
(* wire string from outside is decrypted.                                  *)
(***************************************************************************)
CodecInit ==
    /\ EngineInit
    /\ BuildPendingQuestions(course_questions) = <<>>
    /\ raw_error = NoError
    /\ classified = NotClassified
    /\ CodecIdle
    /\ EndpointIdle
    /\ NothingNoted
    /\ LockIdle
    /\ MorphIdle
    /\ SyncIdle
    /\ NoSecondRun

\* encrypt(input_string)
Encrypt ==
    /\ codec_pc = "idle"
    /\ \E input \in InputStrings,
          key_string \in RandomAlphanumericStrings(KEY_LENGTH),
          iv_string \in RandomAlphanumericStrings(IV_LENGTH),
          dynamic_padding \in RandomAlphanumericStrings(DYNAMIC_PADDING_LENGTH) :
            /\ input_string' = input
            /\ encrypted_data' = EncryptWith(input, key_string, iv_string, dynamic_padding)
    /\ codec_pc' = "encrypted"
    /\ UNCHANGED <<engine_vars, classifier_vars, endpoint_vars, decrypted, last_message, lock_vars, morph_run, sync_run, second_run>>

\* a wire string arrives from outside
ReceiveWire ==
    /\ codec_pc = "idle"
    /\ encrypted_data' \in WireStrings
    /\ codec_pc' = "received"
    /\ UNCHANGED <<engine_vars, classifier_vars, endpoint_vars, input_string, decrypted,
                   last_message, lock_vars, morph_run, sync_run, second_run>>

\* decrypt(encrypted_data)
Decrypt ==
    /\ codec_pc \in {"encrypted", "received"}
    /\ decrypted' = DecryptData(encrypted_data)
    /\ codec_pc' = IF codec_pc = "encrypted" THEN "round_trip" ELSE "decrypted"
    /\ UNCHANGED <<engine_vars, classifier_vars, endpoint_vars, input_string, encrypted_data,
                   last_message, lock_vars, morph_run, sync_run, second_run>>

CodecNext == Encrypt \/ ReceiveWire \/ Decrypt

CodecSpec == CodecInit /\ [][CodecNext]_vars

(***************************************************************************)
(* The obfuscation of a key or IV text alone: _morph_string, then          *)
(* _demorph_string on its result.                                          *)
(***************************************************************************)
\* the characters with a morph rule, the first characters of the morphed
\* values that have none, and one character that occurs in neither
MorphAlphabet == DOMAIN MORPH_RULES \cup {"U", "z", "y", "X", "x"}

\* the key and IV texts drawn: every text of up to MaxKeyLen characters over
\* MorphAlphabet, the morphed values themselves and SEPARATOR (all of them
\* alphanumeric texts a random key may begin with)
KeyTexts ==
    UNION {[1..n -> MorphAlphabet] : n \in 0..MaxKeyLen}
    \cup {MORPH_RULES[c] : c \in DOMAIN MORPH_RULES}
    \cup {SEPARATOR}

\* _morph_string(key_string)
Morph(x) ==
    /\ morph_run.pc = "idle"
    /\ morph_run' = [pc |-> "morphed", input |-> x, morphed |-> MorphString(x),
                     demorphed |-> <<>>]
    /\ UNCHANGED <<engine_vars, classifier_vars, codec_vars, endpoint_vars, last_message,
                   lock_vars, sync_run, second_run>>

\* _demorph_string(morphed_key)
Demorph ==
    /\ morph_run.pc = "morphed"
    /\ morph_run' = [morph_run EXCEPT !.pc = "demorphed",
                                      !.demorphed = DemorphString(morph_run.morphed)]
    /\ UNCHANGED <<engine_vars, classifier_vars, codec_vars, endpoint_vars, last_message,
                   lock_vars, sync_run, second_run>>

MorphNext == (\E x \in KeyTexts : Morph(x)) \/ Demorph

MorphSpec == CodecInit /\ [][MorphNext]_vars

(***************************************************************************)
(* The thread-per-session engine (python_service_nuc.py): one session,     *)
(* its callbacks run by the thread inside run_forever, statement by        *)
(* statement where self.lock is concerned.  The cooperative engine's       *)
(* handlers are applied to the same channel events as they are handed to   *)
(* the thread.                                                             *)
(***************************************************************************)
\* the outcomes of the sends a handler attempts, in the order of the attempts
OutcomeVectors == [1..MaxQueue -> SendOutcomes]

\* AsyncSessionRunner.send_next_question; o[k] is the outcome of this send
RECURSIVE CoopSendNextQuestion(_, _, _, _)
CoopSendNextQuestion(r, n, o, k) ==
    IF r.current_question_index >= n
    THEN [r EXCEPT !.all_questions_sent = TRUE,
                   !.closed = r.closed
                              \/ r.questions_sent_count = r.responses_received_count]
    ELSE LET r1 == [r EXCEPT !.current_question_index = r.current_question_index + 1]
         IN  CASE o[k] = "ok" ->
                      [r1 EXCEPT !.questions_sent_count = r.questions_sent_count + 1,
                                 !.sends = Append(r.sends, r1.current_question_index)]
               [] o[k] \in {"closed", "error_closed"} -> r1
               [] o[k] = "error_open" -> CoopSendNextQuestion(r1, n, o, k + 1)

\* AsyncSessionRunner.handle_message
CoopHandleMessage(r, n, kind, o) ==
    IF kind = "terminal"
    THEN LET r1 == [r EXCEPT !.responses_received_count = r.responses_received_count + 1]
         IN  IF ~r1.all_questions_sent THEN CoopSendNextQuestion(r1, n, o, 1) ELSE r1
    ELSE r

sync_frame ==
    <<engine_vars, classifier_vars, codec_vars, endpoint_vars, last_message, lock_vars,
      morph_run, second_run>>

SyncInit ==
    /\ EngineInit
    /\ BuildPendingQuestions(course_questions) = <<>>
    /\ raw_error = NoError
    /\ classified = NotClassified
    /\ CodecIdle
    /\ EndpointIdle
    /\ NothingNoted
    /\ LockIdle
    /\ MorphIdle
    /\ \E n \in 1..MaxQueue : sync_run = SessionRunner(n)
    /\ NoSecondRun

\* on_open: the channel is open, send_next_question is called
ThreadOpen(o) ==
    /\ sync_run.pc = "new"
    /\ sync_run' = [sync_run EXCEPT
           !.pc = "acquire", !.depth = 1, !.outcomes = o,
           !.coop = CoopSendNextQuestion(sync_run.coop, sync_run.n, o, 1)]
    /\ UNCHANGED sync_frame

\* send_next_question, "with self.lock:": threading.Lock is taken when it is
\* free; the thread waits at this statement while it is held
ThreadAcquire ==
    /\ sync_run.pc = "acquire"
    /\ sync_run.lock = "free"
    /\ sync_run' = [sync_run EXCEPT !.pc = "check", !.lock = "held"]
    /\ UNCHANGED sync_frame

\* send_next_question, the test for the end of the queue; on the end it marks
\* all questions sent, closes the channel when every sent question is
\* answered, and returns, which leaves the with block
ThreadCheck ==
    /\ sync_run.pc = "check"
    /\ LET r == sync_run.thread
       IN  IF r.current_question_index >= sync_run.n
           THEN LET closes == r.questions_sent_count = r.responses_received_count
                IN  sync_run' = [sync_run EXCEPT
                        !.thread = [r EXCEPT !.all_questions_sent = TRUE,
                                             !.closed = closes],
                        !.lock = "free", !.depth = 0,
                        !.pc = IF closes THEN "finished" ELSE "idle"]
           ELSE sync_run' = [sync_run EXCEPT
                    !.thread = [r EXCEPT !.current_question_index =
                                            r.current_question_index + 1],
                    !.pc = "send"]
    /\ UNCHANGED sync_frame

\* send_next_question, the try block: ws.send returns and the with block is
\* left, or it raises and the handler calls send_next_question again, inside
\* the with block
ThreadSend ==
    /\ sync_run.pc = "send"
    /\ LET r == sync_run.thread
       IN  IF sync_run.outcomes[sync_run.depth] = "ok"
           THEN sync_run' = [sync_run EXCEPT
                    !.thread = [r EXCEPT
                        !.questions_sent_count = r.questions_sent_count + 1,
                        !.sends = Append(r.sends, r.current_question_index)],
                    !.lock = "free", !.depth = 0, !.pc = "idle"]
           ELSE sync_run' = [sync_run EXCEPT !.pc = "acquire",
                                             !.depth = sync_run.depth + 1]
    /\ UNCHANGED sync_frame

\* on_message: a chunk is stored; a complete response is counted and, unless
\* all questions are sent, send_next_question is called
ThreadMessage(kind, o) ==
    /\ sync_run.pc = "idle"
    /\ sync_run.inbound < MaxInbound
    /\ LET r == sync_run.thread
           calls == kind = "terminal" /\ ~r.all_questions_sent
       IN  sync_run' = [sync_run EXCEPT
               !.inbound = sync_run.inbound + 1,
               !.outcomes = o,
               !.thread = IF kind = "terminal"
                          THEN [r EXCEPT !.responses_received_count =
                                            r.responses_received_count + 1]
                          ELSE r,
               !.coop = CoopHandleMessage(sync_run.coop, sync_run.n, kind, o),
               !.pc = IF calls THEN "acquire" ELSE "idle",
               !.depth = IF calls THEN 1 ELSE 0]
    /\ UNCHANGED sync_frame

\* on_close: the server closes the channel; run_forever returns, the
\* cooperative engine's receive loop ends
ThreadClose ==
    /\ sync_run.pc = "idle"
    /\ sync_run' = [sync_run EXCEPT !.pc = "finished"]
    /\ UNCHANGED sync_frame

SyncNext ==
    \/ \E o \in OutcomeVectors : ThreadOpen(o)
    \/ ThreadAcquire
    \/ ThreadCheck
    \/ ThreadSend
    \/ \E kind \in {"chunk", "terminal"}, o \in OutcomeVectors : ThreadMessage(kind, o)
    \/ ThreadClose

\* the session's thread runs: a statement it can execute is executed
SyncSpec ==
    /\ SyncInit
    /\ [][SyncNext]_vars
    /\ WF_vars(ThreadAcquire)
    /\ WF_vars(ThreadCheck)
    /\ WF_vars(ThreadSend)

(***************************************************************************)
(* Two requests served concurrently: while the one session of a run is in  *)
(* flight, the endpoint is posted a second request, for a flat run of no   *)
(* sessions.  Both runs are coroutines of the same process and share the   *)
(* module-level counters.                                                  *)
(***************************************************************************)
\* the second request's run_load_test(0) up to "await asyncio.gather()":
\* "Reset global counters"
SecondRunCalled ==
    /\ run_pc = "gather"
    /\ second_run.pc = "none"
    /\ ResetCounters
    /\ second_run' = [second_run EXCEPT !.pc = "gather"]
    /\ UNCHANGED <<course_questions, sess, error_counters, run_pc, mode, ramp_vars, stats,
                   classifier_vars, codec_vars, endpoint_vars, last_message, lock_vars,
                   morph_run, sync_run>>

\* the second request's run_load_test(0) from the end of its joint wait: the
\* counters are read and the stats dictionary is returned
SecondRunReturns ==
    /\ second_run.pc = "gather"
    /\ second_run' = [pc |-> "returned", stats |-> BuildStats(0, <<>>, <<>>)]
    /\ UNCHANGED <<engine_vars, classifier_vars, codec_vars, endpoint_vars, last_message,
                   lock_vars, morph_run, sync_run>>

OverlapNext ==
    \/ QueueNext
    \/ SecondRunCalled
    \/ SecondRunReturns

OverlapSpec == QueueInit /\ [][OverlapNext]_vars

(***************************************************************************)
(* Properties.                                                             *)
(***************************************************************************)
\* some step of session s
SessionStep(s) ==
    \/ \E o \in TokenOutcomes : GenerateTokenReturns(s, o)
    \/ \E o \in ChatOutcomes : CreateChatReturns(s, o)
    \/ ConnectOk(s)
    \/ \E e \in ConnectErrors : ConnectFails(s, e)
    \/ \E o \in SendOutcomes : SendCompletes(s, o)
    \/ \E m \in PlainMessages : Receive(s, m)
    \/ \E how \in Closures : LoopEnds(s, how)

\* C1: within one session at most one request is outstanding: a request is
\* sent only when every earlier request was answered by a terminal response
\* (outstanding counts the requests sent and not yet answered).
C1_OneOutstandingRequest ==
    \A s \in DOMAIN sess :
        /\ sess[s].outstanding <= 1
        /\ sess[s].pc = "send" => sess[s].outstanding = 0

\* the second question is outstanding after the first was answered, and an
\* attribute update has been processed without a send
C1_Witness ==
    \E s \in DOMAIN sess :
        /\ sess[s].pc = "listen"
        /\ sess[s].questions_sent_count = 2
        /\ sess[s].responses_received_count = 1
        /\ sess[s].outstanding = 1
        /\ sess[s].session_attributes # "None"

\* C2: for every session, in every state, responses_received <= questions_sent.
C2_ResponsesNeverExceedSent ==
    \A s \in DOMAIN sess :
        /\ sess[s].responses_received_count <= sess[s].questions_sent_count
        /\ sess[s].result.responses_received <= sess[s].result.questions_sent

\* C3: a request in flight when its session terminates releases its slot on
\* every termination path, so once every session has terminated the in-flight
\* count is 0.
C3_SlotsReleasedAtTermination ==
    AllDone(sess) => concurrent_invocations = 0

\* C4: the in-flight count is never negative.
C4_CurrentNeverNegative == concurrent_invocations >= 0

\* a terminal message was processed when nothing was outstanding, and the
\* count is 0
C4_Witness ==
    /\ concurrent_invocations = 0
    /\ \E s \in DOMAIN sess :
          sess[s].responses_received_count > sess[s].questions_sent_count

\* C5: peak >= current, and peak is the largest value current has taken since
\* the reset.
C5_PeakIsRunningMaximum ==
    /\ peak_concurrent >= concurrent_invocations
    /\ peak_concurrent = max_seen

\* two requests were in flight at once and both were answered
C5_Witness ==
    /\ peak_concurrent = 2
    /\ concurrent_invocations = 0
    /\ total_invocations_completed = 2

\* C6: a session's result is successful iff questions_sent = responses_received
\* and questions_sent > 0.
C6_SuccessIffAllAnswered ==
    \A s \in DOMAIN sess :
        sess[s].task = "returned" =>
            (sess[s].result.successful <=>
                /\ sess[s].result.questions_sent = sess[s].result.responses_received
                /\ sess[s].result.questions_sent > 0)

\* a session that opened its channel and sent nothing has returned
C6_Witness ==
    \E s \in DOMAIN sess :
        /\ sess[s].task = "returned"
        /\ sess[s].ws = "closed"
        /\ sess[s].result.questions_sent = 0
        /\ sess[s].result.responses_received = 0
        /\ ~sess[s].result.successful

RECURSIVE SessionsUpTo(_, _)
\* the sessions stages 1..i added
SessionsUpTo(stages, i) ==
    IF i = 0 THEN 0 ELSE stages[i].sessions + SessionsUpTo(stages, i - 1)

\* C7: for start <= max and increment >= 1 the stages are numbered 1, 2, ...,
\* stage 1 adds start sessions, every later stage adds
\* min(increment, max - cumulative so far), each cumulative is the sum of the
\* sessions so far, and when the ramp is over the last cumulative is max.
C7_RampStages ==
    (mode = "staged" /\ start_sessions <= max_sessions /\ increment >= 1) =>
        /\ Len(ramp_stages) >= 1
        /\ ramp_stages[1].sessions = start_sessions
        /\ \A i \in DOMAIN ramp_stages :
              /\ ramp_stages[i].stage = i
              /\ ramp_stages[i].cumulative_sessions = SessionsUpTo(ramp_stages, i)
              /\ i > 1 =>
                    ramp_stages[i].sessions =
                        Min(increment,
                            max_sessions - ramp_stages[i - 1].cumulative_sessions)
        /\ run_pc = "gather" =>
              ramp_stages[Len(ramp_stages)].cumulative_sessions = max_sessions

\* the worked example: start 10, max 95, increment 30
C7_Witness ==
    /\ run_pc = "gather"
    /\ [i \in DOMAIN ramp_stages |-> ramp_stages[i].sessions] = <<10, 30, 30, 25>>
    /\ [i \in DOMAIN ramp_stages |-> ramp_stages[i].cumulative_sessions]
          = <<10, 40, 70, 95>>

\* C8: in staged mode the next stage is scheduled whatever the sessions do
\* (the ramp waits for the interval only), and the run returns its report only
\* when every session of every stage has terminated.
C8_RampNeverWaitsReportWaitsForAll ==
    /\ run_pc = "sleep" => ENABLED RampStep
    /\ (mode = "staged" /\ run_pc = "returned") =>
          /\ AllDone(sess)
          /\ stats.total_sessions = Len(sess)
          /\ Len(stats.individual_results) = Len(sess)

\* the joint wait of a ramp of two stages: a session of stage 1 still runs
\* after stage 2 was scheduled and a session of stage 2 has finished
C8_Witness ==
    /\ mode = "staged"
    /\ run_pc = "gather"
    /\ Len(ramp_stages) >= 2
    /\ Len(sess) = 2
    /\ sess[1].task = "running"
    /\ sess[2].task = "returned"

\* C9: a failing session ends with its own result record; no exception leaves
\* a session task or reaches the controller, and every other session that is
\* still running can take its next step.
C9_FailureIsolated ==
    /\ run_pc # "raised"
    /\ \A s \in DOMAIN sess :
          /\ sess[s].task # "raised"
          /\ sess[s].task = "returned" =>
                sess[s].result.session_index = sess[s].session_index
          /\ sess[s].task = "running" => ENABLED SessionStep(s)

\* a run has returned with one session that failed and one that succeeded
C9_Witness ==
    /\ run_pc = "returned"
    /\ \E s, t \in DOMAIN sess :
          /\ sess[s].result.connection_error_type
                \notin {"None", "Setup_Failed"}
          /\ sess[t].result.successful

\* C10: a session whose bootstrap fails ends at once, without a channel and
\* without a send, with the result 0 / 0 / not successful / setup not
\* successful / Setup_Failed.
C10_BootstrapFailureIsTerminal ==
    \A s \in DOMAIN sess :
        sess[s].bootstrap = "failed" =>
            /\ sess[s].pc = "done"
            /\ sess[s].task = "returned"
            /\ sess[s].ws = "none"
            /\ total_invocations_started = 0
            /\ sess[s].result =
                  [session_index |-> sess[s].session_index,
                   questions_sent |-> 0,
                   responses_received |-> 0,
                   successful |-> FALSE,
                   setup_successful |-> FALSE,
                   connection_error_type |-> "Setup_Failed"]

\* the run of one session whose bootstrap raised has returned its report
C10_Witness ==
    /\ run_pc = "returned"
    /\ setup_failures = 1
    /\ \E s \in DOMAIN sess : sess[s].bootstrap = "failed"
    /\ stats.setup_successful_sessions = 0
    /\ stats.successful_sessions = 0

\* Q: the length of every session's queue
QueueLength == Len(BuildPendingQuestions(course_questions))

\* the report of a run in which every question of every session was answered
ReportAllAnswered ==
    /\ \A s \in DOMAIN sess :
          /\ sess[s].task = "returned"
          /\ sess[s].result.questions_sent = QueueLength
    /\ stats.total_questions_sent = stats.total_sessions * QueueLength
    /\ stats.total_responses_received = stats.total_sessions * QueueLength
    /\ stats.successful_sessions = stats.total_sessions
    /\ stats.success_rate = 100
    /\ stats.final_concurrent_invocations = 0

RECURSIVE SlotsHeld(_)
\* the slots the first n sessions hold
SlotsHeld(n) == IF n = 0 THEN 0 ELSE sess[n].slots + SlotsHeld(n - 1)

\* C12: within a run the in-flight count and the peak never exceed the number
\* of sessions created so far: every session holds at most one slot (its
\* increments and decrements alternate) and the count is the number of slots
\* held.
C12_InFlightBoundedBySessions ==
    /\ \A s \in DOMAIN sess : sess[s].slots \in {0, 1}
    /\ concurrent_invocations = SlotsHeld(Len(sess))
    /\ concurrent_invocations <= Len(sess)
    /\ peak_concurrent <= Len(sess)

\* both sessions of a run hold a slot, and one of them has taken its second
C12_Witness ==
    /\ Len(sess) = 2
    /\ concurrent_invocations = 2
    /\ peak_concurrent = 2
    /\ total_invocations_started = 3

\* the error has been classified
IsClassified == classified # NotClassified

\* the exception types whose except clause inspects the message
MessageInspected == raw_error.type \in {"InvalidHandshake", "Exception"}

C14_ContainsServiceUnavailableIs503 ==
    (IsClassified /\ Contains(raw_error.message, "Service Unavailable")) =>
        classified.connection_error_type = "503_Service_Unavailable"

\* C14 (amended): a raw error of handshake type or of generic type whose
\* message contains "Service Unavailable" and neither "502" nor "Bad Gateway"
\* has the category 503_Service_Unavailable, whatever else the message
\* contains; with "502" or "Bad Gateway" it is 502_Bad_Gateway.
C14_ContainsServiceUnavailableIs503AfterBadGateway ==
    (IsClassified /\ MessageInspected
        /\ Contains(raw_error.message, "Service Unavailable")) =>
            classified.connection_error_type =
                IF Is502(raw_error.message) THEN "502_Bad_Gateway"
                ELSE "503_Service_Unavailable"

\* a handshake error whose message contains "Service Unavailable" and
\* "Gateway Timeout" has been classified 503_Service_Unavailable
C14_Witness ==
    /\ raw_error = [type |-> "InvalidHandshake",
                    message |-> {"Service Unavailable", "Gateway Timeout"}]
    /\ classified.connection_error_type = "503_Service_Unavailable"

\* C15: decrypting what encrypt produced gives the input string back, and the
\* wire string encrypt produced splits into exactly three parts on the
\* separator, for every key, IV and padding encrypt can draw.
C15_DecryptInvertsEncrypt ==
    /\ codec_pc \in {"encrypted", "round_trip"}
        => Len(Split(encrypted_data, SEPARATOR)) = 3
    /\ codec_pc = "round_trip"
        => decrypted.status = "ok" /\ decrypted.output = input_string

\* C16: decrypt raises the format error whenever the wire string does not
\* split into exactly three parts on the separator, and it has then neither
\* demorphed nor deciphered anything.
C16_WrongPartCountIsFormatError ==
    (/\ codec_pc \in {"round_trip", "decrypted"}
     /\ Len(Split(encrypted_data, SEPARATOR)) # 3)
        => /\ decrypted.status = "format_error"
           /\ ~decrypted.demorphed
           /\ ~decrypted.deciphered

\* a received wire string with one separator was rejected
C16_Witness ==
    /\ codec_pc = "decrypted"
    /\ Len(Split(encrypted_data, SEPARATOR)) = 2
    /\ decrypted.status = "format_error"

\* a step of session s in which a send failed: the session was sending and
\* left the send without counting the question as sent
SendFailed(s) ==
    /\ SessionAt(s, "send")
    /\ sess'[s] # sess[s]
    /\ sess'[s].questions_sent_count = sess[s].questions_sent_count

\* C17: a send that fails does not end the session, the failed question is
\* counted neither as sent nor as in flight, and with the channel still open
\* the next queued question is attempted in the same step; once a send has
\* failed because the channel is closed the session attempts no further send.
C17_SendFailureKeepsSessionGoing ==
    /\ [][\A s \in DOMAIN sess :
            SendFailed(s) =>
                /\ sess'[s].task = "running"
                /\ sess'[s].pc # "done"
                /\ ~sess'[s].waiting_for_response
                /\ sess'[s].slots = sess[s].slots
                /\ concurrent_invocations' = concurrent_invocations
                /\ total_invocations_started' = total_invocations_started
                /\ (/\ sess'[s].ws = "open"
                    /\ sess[s].current_question_index < Len(sess[s].pending_questions))
                        => /\ sess'[s].pc = "send"
                           /\ sess'[s].current_question_index =
                                  sess[s].current_question_index + 1]_vars
    /\ [](\A s \in DOMAIN sess :
            sess[s].closed_on_send => sess[s].pc # "send")

\* C18: when the ramp controller has been cancelled during the wait between
\* two stages, no further stage is added, no session task of the run is still
\* running and no channel of the run is still open.
C18_CancelStopsRampAndSessions ==
    /\ [][run_pc = "cancelled" =>
            /\ Len(sess') = Len(sess)
            /\ ramp_stages' = ramp_stages]_vars
    /\ [](run_pc = "cancelled" =>
            \A s \in DOMAIN sess :
                sess[s].task # "running" /\ sess[s].ws # "open")

\* C19: in either mode, once every session of the run has ended and the run
\* has returned its summary, the job trigger answers with the success status
\* and that summary; it answers with a failure status only when the request
\* body was malformed or an exception left the run.
C19_TerminatedRunAnswersSuccess ==
    /\ (response # NoResponse /\ run_pc = "returned")
        => response = [status |-> 200, statistics |-> stats]
    /\ response.status \in {400, 500}
        => request \in {"invalid_json", "not_object"} \/ run_pc = "raised"

\* C20: a session that opened a channel has that channel closed when it
\* reaches its terminal state, whichever way it leaves start(): no ended
\* session holds an open channel, and the step that ends a session with an
\* open channel leaves the channel closed.
C20_ChannelClosedAtTermination ==
    /\ [](\A s \in DOMAIN sess : sess[s].pc = "done" => sess[s].ws # "open")
    /\ [][\A s \in DOMAIN sess :
            (sess[s].ws \in {"open", "closed"} /\ sess'[s].pc = "done")
                => sess'[s].ws = "closed"]_vars

\* a session whose receive loop was ended by ConnectionClosed has ended with
\* its channel closed
C20_Witness ==
    \E s \in DOMAIN sess :
        /\ sess[s].pc = "done"
        /\ sess[s].ws = "closed"
        /\ sess[s].result.connection_error_type = "Connection_Closed_By_Server"

\* C21: a request that was in flight when its session ended is counted as
\* completed: once every session of the run has ended, the tracker has counted
\* as many completions as starts.
C21_TerminationCountsCompletion ==
    (run_pc # "idle" /\ AllDone(sess))
        => total_invocations_started = total_invocations_completed

\* responses_received_count of session s after the step (kept in the result
\* once the session has ended)
ReceivedAfter(s) ==
    IF sess'[s].pc = "done" THEN sess'[s].result.responses_received
    ELSE sess'[s].responses_received_count

\* a step of session s in which handle_message processed a terminal message
TerminalProcessed(s) ==
    /\ SessionAt(s, "listen")
    /\ ReceivedAfter(s) = sess[s].responses_received_count + 1

\* C22: when a terminal message is processed while unsent questions remain,
\* the response is counted, the in-flight slot is released and the session is
\* at the send of the next queued question before it receives anything else,
\* whatever value the terminal field carries.
C22_TerminalMessageSendsNext ==
    [][\A s \in DOMAIN sess :
        (/\ TerminalProcessed(s)
         /\ sess[s].current_question_index < Len(sess[s].pending_questions))
            => /\ ~sess'[s].waiting_for_response
               /\ concurrent_invocations' =
                     IF sess[s].waiting_for_response
                     THEN concurrent_invocations - 1 ELSE concurrent_invocations
               /\ sess'[s].pc = "send"
               /\ sess'[s].current_question_index =
                     sess[s].current_question_index + 1]_vars

\* a step of session s in which the engine itself closes the channel or ends
\* the session: the step is none of the receive loop finding the channel
\* closed, a failed connect, a failed setup or a send on a closed channel
OwnInitiative(s) ==
    /\ \/ ConnectOk(s)
       \/ \E m \in InboundMessages : Receive(s, m)
       \/ \E o \in {"ok", "error_open"} : SendCompletes(s, o)
    /\ \/ sess[s].ws # "closed" /\ sess'[s].ws = "closed"
       \/ sess'[s].pc = "done"

\* C23: the engine closes the channel or ends the session of its own accord
\* only when every queued question has been attempted, no request is left
\* outstanding and questions_sent = responses_received; otherwise a session
\* ends only through remote closure or an error.
C23_OwnCloseOnlyWhenAllAnswered ==
    [][\A s \in DOMAIN sess :
        OwnInitiative(s) =>
            /\ sess[s].current_question_index >= Len(sess[s].pending_questions)
            /\ \/ sess[s].outstanding = 0
               \/ sess[s].outstanding = 1 /\ TerminalProcessed(s)
            /\ IF sess'[s].pc = "done"
               THEN sess'[s].result.questions_sent =
                        sess'[s].result.responses_received
               ELSE /\ sess'[s].all_questions_sent
                    /\ ~sess'[s].waiting_for_response
                    /\ sess'[s].questions_sent_count =
                          sess'[s].responses_received_count]_vars

\* a session has left the receive loop of its own accord after the answer to
\* the last of two queued questions
C23_Witness ==
    \E s \in DOMAIN sess :
        /\ sess[s].pc = "done"
        /\ sess[s].left_by = "break"
        /\ sess[s].ws = "closed"
        /\ sess[s].result.questions_sent = 2
        /\ sess[s].result.responses_received = 2

\* the messages handle_message cannot decode: the format check or the
\* decryption fails, the plaintext is empty, or it is not valid JSON
Undecodable ==
    {m \in InboundMessages :
        m.kind \in {"format_error", "decrypt_error", "empty", "not_json"}}

\* the step handles an undecodable message for session s
HandlesUndecodable(s) == \E m \in Undecodable : ReceiveNoted(s, m)

\* what the session has sent and received after the step, wherever the
\* step leaves it
SentAfter(s) ==
    IF sess'[s].pc = "done" THEN sess'[s].result.questions_sent
    ELSE sess'[s].questions_sent_count

\* the step leaves the counts of session s and the tracker counters alone
LeavesCounts(s) ==
    /\ SentAfter(s) = sess[s].questions_sent_count
    /\ ReceivedAfter(s) = sess[s].responses_received_count
    /\ UNCHANGED counters

\* C24 (as stated): handling an inbound message that fails the format check
\* or the decryption, decrypts to empty text or is not valid JSON leaves
\* questions_sent, responses_received, the question index, the session
\* attributes and the four tracker counters unchanged, and the session
\* keeps waiting for further messages.
C24_UndecodableKeepsWaiting ==
    [][\A s \in DOMAIN sess : HandlesUndecodable(s) =>
            /\ LeavesCounts(s)
            /\ sess'[s].pc = "listen"
            /\ sess'[s].current_question_index = sess[s].current_question_index
            /\ sess'[s].session_attributes = sess[s].session_attributes]_vars

\* C24 (amended): handling such a message leaves questions_sent,
\* responses_received and the four tracker counters unchanged; the session
\* keeps waiting, with the question index and the session attributes
\* unchanged, unless it had already attempted every question and counted as
\* many responses as requests: in that case the loop is left after the
\* message and the session returns.
C24_UndecodableChangesNothing ==
    [][\A s \in DOMAIN sess : HandlesUndecodable(s) =>
            /\ LeavesCounts(s)
            /\ IF LoopBreaks(sess[s])
               THEN sess'[s].pc = "done" /\ sess'[s].left_by = "break"
               ELSE /\ sess'[s].pc = "listen"
                    /\ sess'[s].current_question_index = sess[s].current_question_index
                    /\ sess'[s].session_attributes = sess[s].session_attributes]_vars

\* an undecodable message was handled while a request was outstanding, and
\* the session is still listening for its answer
C24_Witness ==
    \E s \in DOMAIN sess :
        /\ last_message \in {"format_error", "decrypt_error", "empty", "not_json"}
        /\ sess[s].pc = "listen"
        /\ sess[s].waiting_for_response
        /\ sess[s].questions_sent_count = 1
        /\ sess[s].responses_received_count = 0
        /\ concurrent_invocations = 1

\* C25: a decoded message that contains session_attributes makes the
\* session's attribute blob exactly that value, a message without the field
\* leaves the blob unchanged, and the request being sent carries the blob
\* current at send time, or the empty object if none was ever received.
C25_AttributesReplacedAndSent ==
    [][\A s \in DOMAIN sess :
        /\ \A m \in InboundMessages : ReceiveNoted(s, m) =>
              sess'[s].session_attributes =
                  IF m.kind = "object" /\ m.session_attributes # "absent"
                  THEN m.session_attributes
                  ELSE sess[s].session_attributes
        /\ sess'[s].pc = "send" =>
              sess'[s].payload =
                  IF sess'[s].session_attributes = "None"
                  THEN "empty" ELSE sess'[s].session_attributes]_vars

\* after one answered request the next request is being sent, carrying the
\* blob a server update has set
C25_Witness ==
    \E s \in DOMAIN sess :
        /\ sess[s].pc = "send"
        /\ sess[s].questions_sent_count = 1
        /\ sess[s].session_attributes = "a2"
        /\ sess[s].payload = "a2"
        /\ last_message = "object"

\* the step begins a run
RunStarts == run_pc = "idle" /\ run_pc' # "idle"

\* C26: the step that begins a run (flat or staged) sets the four counters
\* to 0 with none of the run's sessions started yet, and no later step of
\* the run resets them: the two totals and the peak never go down while the
\* run is in progress.
C26_CountersResetOncePerRun ==
    [][/\ RunStarts =>
            /\ counters' = <<0, 0, 0, 0>>
            /\ \A s \in DOMAIN sess' :
                  sess'[s].pc = "generate_token" /\ sess'[s].bootstrap = "pending"
       /\ run_pc # "idle" =>
            /\ total_invocations_started' >= total_invocations_started
            /\ total_invocations_completed' >= total_invocations_completed
            /\ peak_concurrent' >= peak_concurrent]_vars

\* a run that began with the counters of an earlier run (two requests or more
\* started) has sent its first request and had it answered
C26_Witness ==
    /\ run_pc = "gather"
    /\ total_invocations_started = 1
    /\ total_invocations_completed = 1
    /\ peak_concurrent = 1

\* C27: every step that changes a tracker counter is taken by the task that
\* holds the tracker lock, inside its block; and no task holds the lock while
\* it is suspended at connect, send, receive, the ramp sleep or the joint
\* wait.
C27_MutationsUnderLockOnly ==
    [][/\ counters' # counters =>
            /\ lock_holder \in LockTasks
            /\ task_at[lock_holder].pc \in LockBodies
            /\ task_at'[lock_holder].pc # task_at[lock_holder].pc
       /\ \A t \in LockTasks :
            task_at'[t].pc \in SuspensionPoints => lock_holder' # t]_vars

\* one session waits in ws.send while another, having sent, waits in the
\* receive loop for its answer, and the lock is free
C27_Witness ==
    /\ task_at["s1"].pc = "send"
    /\ task_at["s2"].pc = "listen"
    /\ task_at["s2"].waiting_for_response
    /\ task_at["run"].pc = "sleep"
    /\ concurrent_invocations = 1
    /\ lock_holder = "free"

\* the categories of the generic clause in the order their tests are made
Priority ==
    <<"502_Bad_Gateway", "503_Service_Unavailable", "504_Gateway_Timeout",
      "Connection_Timeout", "Connection_Refused", "SSL_Error", "Unknown_Error">>

\* the test of a category on the message of the error
Matches(m, category) ==
    CASE category = "502_Bad_Gateway" -> "502" \in m \/ "Bad Gateway" \in m
      [] category = "503_Service_Unavailable" ->
            "503" \in m \/ "Service Unavailable" \in m
      [] category = "504_Gateway_Timeout" -> "504" \in m \/ "Gateway Timeout" \in m
      [] category = "Connection_Timeout" ->
            ContainsLower(m, "timeout") \/ ContainsLower(m, "timed out")
      [] category = "Connection_Refused" ->
            ContainsLower(m, "connection") /\ ContainsLower(m, "refused")
      [] category = "SSL_Error" ->
            ContainsLower(m, "ssl") \/ ContainsLower(m, "certificate")
      [] OTHER -> TRUE

\* the first category among the first n of Priority whose test matches, or
\* otherwise
FirstMatch(m, n, otherwise) ==
    LET hits == {k \in 1..n : Matches(m, Priority[k])}
    IN  IF hits = {} THEN otherwise
        ELSE Priority[CHOOSE k \in hits : \A j \in hits : k <= j]

ExpectedQueue(cq) ==
    [i \in 1..(cq[COURSES[1]] + cq[COURSES[2]]) |->
        IF i <= cq[COURSES[1]] THEN <<COURSES[1], i>>
        ELSE <<COURSES[2], i - cq[COURSES[1]]>>]

\* the session has built its queue and has not returned
InStart(r) == r.pc \in {"connect", "send", "listen"}

\* C29: the queue of a session is the concatenation of the pools in course
\* order and pool order; the question index only increases, by one for each
\* attempt, which is then the send of the question at the new index; and
\* questions_sent <= question index <= queue length in every state.
C29_QueueOrderAndIndexBounds ==
    [][\A s \in DOMAIN sess' :
        /\ InStart(sess'[s]) =>
              /\ sess'[s].pending_questions = ExpectedQueue(course_questions)
              /\ sess'[s].questions_sent_count <= sess'[s].current_question_index
              /\ sess'[s].current_question_index <= Len(sess'[s].pending_questions)
        /\ (s \in DOMAIN sess /\ InStart(sess[s]) /\ InStart(sess'[s])) =>
              \/ sess'[s].current_question_index = sess[s].current_question_index
              \/ /\ sess'[s].current_question_index = sess[s].current_question_index + 1
                 /\ sess'[s].pc = "send"]_vars

\* the third question of a queue of four (two per course) is being sent after
\* one send succeeded and one failed
C29_Witness ==
    \E s \in DOMAIN sess :
        /\ sess[s].pc = "send"
        /\ sess[s].pending_questions =
              <<<<COURSES[1], 1>>, <<COURSES[1], 2>>, <<COURSES[2], 1>>, <<COURSES[2], 2>>>>
        /\ sess[s].current_question_index = 3
        /\ sess[s].questions_sent_count = 1

\* C30: a run that has begun eventually returns, whether or not the server
\* answers every request.
C30_RunEventuallyReturns == (run_pc # "idle") ~> (run_pc = "returned")

\* C34 (as stated): a session whose result is marked successful has sent
\* every question of its queue.
C34_SuccessfulSentWholeQueue ==
    \A s \in DOMAIN sess :
        (sess[s].pc = "done" /\ sess[s].result.successful) =>
            sess[s].result.questions_sent = QueueLength

\* C34 (amended): a session whose result is marked successful has sent at
\* least one question, has counted as many responses as it sent questions,
\* and has sent no more questions than its queue holds.
C34_SuccessfulSentAndAnswered ==
    \A s \in DOMAIN sess :
        (sess[s].pc = "done" /\ sess[s].result.successful) =>
            /\ sess[s].result.questions_sent >= 1
            /\ sess[s].result.responses_received = sess[s].result.questions_sent
            /\ sess[s].result.questions_sent <= QueueLength

\* a session with two queued questions is marked successful with one
\* question sent and one response counted
C34_Witness ==
    \E s \in DOMAIN sess :
        /\ sess[s].pc = "done"
        /\ sess[s].result.successful
        /\ sess[s].result.questions_sent = 1
        /\ sess[s].result.responses_received = 1
        /\ QueueLength = 2

\* C35: the result of a session is a success or a failure category, never
\* both: a result marked successful carries no connection_error_type (and so
\* a result that carries one is not marked successful).
C35_SuccessExcludesErrorCategory ==
    \A s \in DOMAIN sess :
        sess[s].pc = "done" =>
            ~(/\ sess[s].result.successful
              /\ sess[s].result.connection_error_type # "None")

\* C36: in the report of a run the tracker totals agree with the sessions'
\* totals: total_invocations_started is the sum of questions_sent and
\* total_invocations_completed the sum of responses_received.
C36_TrackerTotalsMatchSessions ==
    run_pc = "returned" =>
        /\ stats.total_invocations_started = stats.total_questions_sent
        /\ stats.total_invocations_completed = stats.total_responses_received

\* the sessions of the report that ended with a connection error
ErrorSessions ==
    {i \in DOMAIN stats.individual_results :
        stats.individual_results[i].connection_error_type \notin {"None", "Setup_Failed"}}

\* C37: the error counters of a report count only that run's errors:
\* 502_bad_gateway_count equals the run's 502_bad_gateway_sessions, and
\* total_connection_errors is no larger than the number of the run's sessions
\* that ended with a connection error.
C37_ReportCountsOwnErrors ==
    run_pc = "returned" =>
        /\ stats.error_statistics.bad_gateway_count =
              stats.error_statistics.bad_gateway_sessions
        /\ stats.error_statistics.total_connection_errors <= Cardinality(ErrorSessions)

\* C38: in every report error_statistics.setup_failures is the number of
\* sessions of the run whose result has the category Setup_Failed.
C38_SetupFailuresCountsFailedBootstraps ==
    run_pc = "returned" =>
        stats.error_statistics.setup_failures =
            Cardinality({i \in DOMAIN stats.individual_results :
                stats.individual_results[i].connection_error_type = "Setup_Failed"})

\* C40: the ramp loop terminates for every integer configuration: each pass
\* through the loop, entered with cumulative < max, raises cumulative by at
\* least one and to at most max, so that after finitely many stages
\* cumulative reaches max and the controller goes on to the joint wait.
C40_EveryStageApproachesMax ==
    [][(run_pc = "sleep" /\ stage_num' = stage_num + 1) =>
            /\ current_total' > current_total
            /\ current_total' <= max_sessions]_vars

\* text t occurs in text x
Occurs(t, x) == \E i \in 1..Len(x) : StartsWithAt(x, i, t)

\* C32: the five morphed values have width 12 and none is a prefix of
\* another; demorphing the morphed form of a key or IV text gives the text
\* back; and no morphed key or IV contains the separator.
C32_MorphIsReversible ==
    /\ \A c \in DOMAIN MORPH_RULES :
          /\ Len(MORPH_RULES[c]) = 12
          /\ \A d \in DOMAIN MORPH_RULES \ {c} :
                ~StartsWithAt(MORPH_RULES[d], 1, MORPH_RULES[c])
    /\ morph_run.pc = "demorphed" => morph_run.demorphed = morph_run.input
    /\ morph_run.pc # "idle" => ~Occurs(SEPARATOR, morph_run.morphed)

\* the text "aXE" (two characters with a rule around the first character of a
\* morphed value) has been morphed to 25 characters and demorphed again
C32_Witness ==
    /\ morph_run.pc = "demorphed"
    /\ morph_run.input = <<"a", "X", "E">>
    /\ Len(morph_run.morphed) = 25
    /\ morph_run.demorphed = <<"a", "X", "E">>

\* C33: in the thread-per-session engine a call of send_next_question that
\* has reached its lock statement acquires the lock, finishes and releases
\* it: the thread is eventually back outside the callback with the lock free.
C33_SendNextQuestionReturns ==
    (sync_run.pc = "acquire") ~>
        (sync_run.pc \in {"idle", "finished"} /\ sync_run.lock = "free")

\* the thread can do no more with the channel events it was handed: it is
\* outside its callbacks, or it waits for a lock that it holds itself
ThreadQuiescent ==
    \/ sync_run.pc \in {"idle", "finished"}
    \/ sync_run.pc = "acquire" /\ sync_run.lock = "held"

\* C31: handed the same channel events (open, inbound messages, send
\* outcomes, close), the thread-per-session engine and the cooperative engine
\* have issued the same sequence of question sends and hold the same
\* questions_sent and responses_received.
C31_EnginesEquivalent ==
    ThreadQuiescent =>
        /\ sync_run.thread.sends = sync_run.coop.sends
        /\ sync_run.thread.questions_sent_count = sync_run.coop.questions_sent_count
        /\ sync_run.thread.responses_received_count
               = sync_run.coop.responses_received_count

\* C39: with a second run started while a session of the first is in flight,
\* the in-flight count never becomes negative and each run's report reflects
\* only its own sessions: the second run, which has no sessions, reports no
\* invocations, and the first reports as many started invocations as its
\* sessions sent questions.
C39_OverlappingRunsKeepCounts ==
    /\ concurrent_invocations >= 0
    /\ second_run.pc = "returned" =>
          /\ second_run.stats.total_invocations_started = 0
          /\ second_run.stats.total_invocations_completed = 0
          /\ second_run.stats.peak_concurrent_invocations = 0
          /\ second_run.stats.final_concurrent_invocations = 0
    /\ run_pc = "returned" =>
          stats.total_invocations_started = stats.total_questions_sent

====
